---- MODULE Spec2Model ----
(***************************************************************************)
(* Model of validor's test orchestrator: Module.Apply / Module.Destroy     *)
(* (src/module.go), TestResults (src/interfaces.go) and runModuleTests     *)
(* (src/validor.go), run under the scheduling rules of Go's testing        *)
(* package (t.Run, t.Parallel, t.Cleanup); and of the source converter     *)
(* (src/converter.go) with the local-source setup built on it              *)
(* (createLocalSetupFunc, convertModulesToLocal in src/validor.go).        *)
(***************************************************************************)
EXTENDS Integers, Sequences, FiniteSets, TLC

\* Number of modules handed to runModuleTests.  Module k is the k-th element
\* of the input slice; its Name is unique within the run.
NumModules == 2

Modules == 1..NumModules

\* Number of *.tf files on disk.  File k is the k-th path in glob order.
NumFiles == 2

Files == 1..NumFiles

VARIABLES
    skipDestroy,    \* Config.SkipDestroy
    parallel,       \* runModuleTests' parallel argument
    exceptionList,  \* Config.ExceptionList, as the set of module names in it
    mpc,            \* position of runModuleTests / of the parent test
    idx,            \* loop index of "for _, module := range modules"
    spc,            \* spc[m]: position of the subtest closure of module m
    Errors,         \* Errors[m]: Module.Errors
    ApplyFailed,    \* ApplyFailed[m]: Module.ApplyFailed
    tFailed,        \* tFailed[m]: the subtest's t.Failed()
    applyRet,       \* applyRet[m]: what Apply returned ("none" before)
    destroyRet,     \* destroyRet[m]: what Destroy returned ("none" before)
    teardown,       \* teardown[m]: outcome of terraform.DestroyE
    cleanup,        \* cleanup[m]: outcome of cleanupFiles
    applyCalls,     \* applyCalls[m]: number of invocations of Apply
    destroyCalls,   \* destroyCalls[m]: number of invocations of Destroy
    mu,             \* TestResults.mu: 0 when free, else the holder
    trModules,      \* TestResults.modules
    trFailed,       \* TestResults.failedModules
    local,          \* local[m]: tr.modules as read by append in AddModule
    summaries,      \* outputs of PrintModuleSummary, in order of emission
    disk,           \* disk[f]: content of file f
    orig,           \* orig[f]: content of file f before any conversion
    ctxDone,        \* the context handed to the converter is cancelled
    cpc,            \* position of the converter call in progress
    cDir,           \* ConvertToLocal: "files", the glob result
    cIdx,           \* ConvertToLocal: index of the range loop over files
    filesToRestore, \* ConvertToLocal: the local slice filesToRestore
    convRet,        \* what ConvertToLocal returned: [files, err]
    revertList,     \* RevertToRegistry: its filesToRestore argument
    rIdx,           \* RevertToRegistry: index of the range loop
    revertRet,      \* what RevertToRegistry returned ("none" before)
    lookup,         \* lookup[f]: outcome of GetLatestVersion for f's entry
    revWrites,      \* files RevertToRegistry wrote, in order
    sIdx,           \* convertModulesToLocal: index of the loop over names
    allFilesToRestore, \* convertModulesToLocal: allFilesToRestore
    revertPending,  \* the reversal cleanup is registered and has not run
    warnings,       \* t.Logf warnings of the local-source setup and cleanup
    dirOf,          \* dirOf[f]: the module whose directory holds file f
    convCalls,      \* repeated ConvertToLocal calls the client has made on the directory
    resp,           \* what the registry's HTTP endpoint answers
    regRet,         \* what GetLatestVersion returned: [version, err]
    created,        \* Cleanup: the directory entries when Cleanup was called
    present,        \* Cleanup: the directory entries that exist
    kDone,          \* Cleanup: its context is cancelled
    kpc,            \* Cleanup: position of the call
    kIdx,           \* Cleanup: index of the range loop over filesToCleanup
    kMatches,       \* Cleanup: matches of the current pattern still to remove
    kRet,           \* Cleanup: what it returned ("none" before)
    runOpts,        \* Run: the TestOptions after the option functions
    discovered,          \* Run: number of module directories discoverModules finds
    tpc,            \* position of the test function that calls Run
    rpc,            \* Run: position of the call
    rmods,          \* Run: len(modules)
    rLoop,          \* Run: index of the range loops over modules
    wpc,            \* Run: wpc[m], position of the subtest closure of module m
    resultChan,     \* Run: the buffered channel resultChan
    results,        \* Run: the slice results
    runErr          \* Run: the error it returned ("none" before)

vars == <<skipDestroy, parallel, exceptionList, mpc, idx, spc, Errors,
          ApplyFailed, tFailed, applyRet, destroyRet, teardown, cleanup,
          applyCalls, destroyCalls, mu, trModules, trFailed, local, summaries,
          disk, orig, ctxDone, cpc, cDir, cIdx, filesToRestore, convRet,
          revertList, rIdx, revertRet, lookup, revWrites, sIdx,
          allFilesToRestore, revertPending, warnings, dirOf, convCalls, resp,
          regRet,
          created, present, kDone, kpc, kIdx, kMatches, kRet, runOpts, discovered,
          tpc, rpc, rmods, rLoop, wpc, resultChan, results, runErr>>

cfgVars == <<skipDestroy, parallel, exceptionList>>
modVars == <<Errors, ApplyFailed>>
histVars == <<applyRet, destroyRet, teardown, cleanup, applyCalls, destroyCalls>>
trVars == <<mu, trModules, trFailed, local>>
diskVars == <<disk, orig, lookup, revWrites>>
callVars == <<ctxDone, cpc, cDir, cIdx, filesToRestore, convRet, revertList,
              rIdx, revertRet>>
setupVars == <<sIdx, allFilesToRestore, revertPending, warnings>>
convVars == <<diskVars, callVars, setupVars>>
runVars == <<cfgVars, mpc, idx, spc, modVars, tFailed, histVars, trVars,
             summaries>>
regVars == <<resp, regRet>>
cleanVars == <<created, present, kDone, kpc, kIdx, kMatches, kRet>>
chanVars == <<runOpts, discovered, tpc, rpc, rmods, rLoop, wpc, resultChan, results,
              runErr>>
sideVars == <<dirOf, convCalls, regVars, cleanVars, chanVars>>

\* The three messages a module can record (the fmt.Sprintf prefixes).
ApplyMsg == "Apply failed"
DestroyMsg == "Destroy failed"
CleanupMsg == "Cleanup failed"

----------------------------------------------------------------------------
\* Variant of Apply that records the error without setting ApplyFailed.
ModuleApplyUnflagged(errs, af, err) ==
    IF err
    THEN [Errors |-> Append(errs, ApplyMsg), ApplyFailed |-> af, ret |-> "err"]
    ELSE [Errors |-> errs, ApplyFailed |-> af, ret |-> "nil"]

\* Variant of Apply that sets ApplyFailed without recording the error.
ModuleApplySilent(errs, af, err) ==
    IF err
    THEN [Errors |-> errs, ApplyFailed |-> TRUE, ret |-> "err"]
    ELSE [Errors |-> errs, ApplyFailed |-> af, ret |-> "nil"]

\* Module.Apply: err is TRUE when terraform.InitAndApplyE returned an error.
ModuleApply(errs, af, err) ==
    IF err
    THEN [Errors |-> Append(errs, ApplyMsg), ApplyFailed |-> TRUE, ret |-> "err"]
    ELSE [Errors |-> errs, ApplyFailed |-> af, ret |-> "nil"]

\* Variant of Destroy without the ApplyFailed circuit breaker.
ModuleDestroyNoBreaker(errs, af, destroyErr, cleanupErr) ==
    LET e1 == IF destroyErr THEN Append(errs, DestroyMsg) ELSE errs
        e2 == IF cleanupErr THEN Append(e1, CleanupMsg) ELSE e1
    IN  [Errors |-> e2, ret |-> IF destroyErr THEN "err" ELSE "nil"]

\* Variant of Destroy that returns the teardown error without recording it.
ModuleDestroyUnrecorded(errs, af, destroyErr, cleanupErr) ==
    LET e2 == IF cleanupErr /\ ~af THEN Append(errs, CleanupMsg) ELSE errs
    IN  [Errors |-> e2, ret |-> IF destroyErr THEN "err" ELSE "nil"]

\* Variant of Destroy whose first test reads "||" instead of "&&".
ModuleDestroyOr(errs, af, destroyErr, cleanupErr) ==
    LET e1 == IF destroyErr \/ ~af THEN Append(errs, DestroyMsg) ELSE errs
        e2 == IF cleanupErr /\ ~af THEN Append(e1, CleanupMsg) ELSE e1
    IN  [Errors |-> e2, ret |-> IF destroyErr THEN "err" ELSE "nil"]

\* Variant of Destroy that cleans up (and records that) before teardown.
ModuleDestroyCleanupFirst(errs, af, destroyErr, cleanupErr) ==
    LET e1 == IF cleanupErr /\ ~af THEN Append(errs, CleanupMsg) ELSE errs
        e2 == IF destroyErr /\ ~af THEN Append(e1, DestroyMsg) ELSE e1
    IN  [Errors |-> e2, ret |-> IF destroyErr THEN "err" ELSE "nil"]

\* Module.Destroy: destroyErr is TRUE when terraform.DestroyE failed,
\* cleanupErr when cleanupFiles returned an error.
ModuleDestroy(errs, af, destroyErr, cleanupErr) ==
    LET e1 == IF destroyErr /\ ~af THEN Append(errs, DestroyMsg) ELSE errs
        e2 == IF cleanupErr /\ ~af THEN Append(e1, CleanupMsg) ELSE e1
    IN  [Errors |-> e2, ret |-> IF destroyErr THEN "err" ELSE "nil"]

\* The modules argument of runModuleTests, as a slice.
InputModules == [k \in 1..NumModules |-> k]

\* TestResults.GetResults
GetResults == <<trModules, trFailed>>

\* Variant of the summary's input: the slice captured before the run.
SummaryModulesCaptured == InputModules

\* "modules, _ := results.GetResults()": what the deferred summary prints.
SummaryModules == GetResults[1]

\* The t.Log calls of PrintModuleSummary for the failed modules: a header,
\* the numbered errors and an empty line for each, in order.
RECURSIVE FailedLines(_)
FailedLines(failedModules) ==
    IF failedModules = <<>> THEN <<>>
    ELSE LET m == Head(failedModules) IN
         <<<<"module", m>>>>
           \o [i \in 1..Len(Errors[m]) |-> <<"error", i, Errors[m][i]>>]
           \o <<<<"blank">>>>
           \o FailedLines(Tail(failedModules))

\* Variant of PrintModuleSummary whose count line counts error entries.
PrintModuleSummaryCountsErrors(modules) ==
    LET failedModules == SelectSeq(modules, LAMBDA m : Len(Errors[m]) > 0)
        RECURSIVE Sum(_)
        Sum(ms) == IF ms = <<>> THEN 0 ELSE Len(Errors[Head(ms)]) + Sum(Tail(ms))
    IN  [failed |-> failedModules,
         count |-> Len(failedModules),
         total |-> Len(modules),
         lines |-> IF Len(failedModules) > 0
                   THEN FailedLines(failedModules)
                          \o <<<<"total", Sum(failedModules), Len(modules)>>>>
                   ELSE <<<<"success", Len(modules)>>>>]

\* PrintModuleSummary(t, modules): the failed modules listed and the totals;
\* "lines" is what it logs.
PrintModuleSummary(modules) ==
    LET failedModules == SelectSeq(modules, LAMBDA m : Len(Errors[m]) > 0)
    IN  [failed |-> failedModules,
         count |-> Len(failedModules),
         total |-> Len(modules),
         lines |-> IF Len(failedModules) > 0
                   THEN FailedLines(failedModules)
                          \o <<<<"total", Len(failedModules), Len(modules)>>>>
                   ELSE <<<<"success", Len(modules)>>>>]

\* Variant of the exclusion test that never matches.
IsExceptionNever(m) == FALSE

\* slices.Contains(config.ExceptionList, module.Name)
IsException(m) == m \in exceptionList

----------------------------------------------------------------------------
\* The source converter (src/converter.go).  A string that holds a path is
\* modelled as the sequence of its "/"-separated segments, so that
\* "ns/name/provider//modules/net" is <<"ns","name","provider","","modules",
\* "net">> and "../../" is <<"..","..","">>.  A version string is the
\* sequence of its blank-separated words.  A parsed file is a sequence of
\* blocks [type, attrs, body]; an attribute is [name, value], and a value
\* is a quoted string literal (lit) or some other expression.

\* ModuleInfo handed to ConvertToLocal, copied into every FileRestore.
moduleInfo == [Namespace |-> "ns", Name |-> "name", Provider |-> "provider"]

\* fmt.Sprintf("%s/%s/%s", Namespace, Name, Provider)
ModuleSourceOf(info) == <<info.Namespace, info.Name, info.Provider>>

\* "^" + QuoteMeta(ns/name/provider) + "//modules/(.*)$", kept as the
\* literal prefix the pattern demands before its capture group.
SubmoduleRegexOf(info) == ModuleSourceOf(info) \o <<"", "modules">>

\* The local-root path "../../" and the prefix "../../modules/".
LocalRoot == <<"..", "..", "">>
LocalModules == <<"..", "..", "modules">>

Lit(s) == [lit |-> TRUE, str |-> s]
NonLiteral == [lit |-> FALSE, str |-> <<>>]
Attr(name, value) == [name |-> name, value |-> value]
Block(type, attrs, body) == [type |-> type, attrs |-> attrs, body |-> body]

\* block.Body().GetAttribute(name): position of the attribute, 0 for nil.
GetAttribute(attrs, name) ==
    IF \E i \in 1..Len(attrs) : attrs[i].name = name
    THEN CHOOSE i \in 1..Len(attrs) :
           /\ attrs[i].name = name
           /\ \A j \in 1..(i - 1) : attrs[j].name # name
    ELSE 0

\* SetAttributeValue: replaces the value in place, appends when absent.
SetAttributeValue(attrs, name, str) ==
    LET i == GetAttribute(attrs, name) IN
    IF i = 0 THEN Append(attrs, Attr(name, Lit(str)))
    ELSE [attrs EXCEPT ![i] = Attr(name, Lit(str))]

\* RemoveAttribute
RemoveAttribute(attrs, name) == SelectSeq(attrs, LAMBDA a : a.name # name)

\* attributeStringValue: strconv.Unquote succeeds on a quoted literal only.
attributeStringValue(attr) ==
    IF attr.value.lit THEN [value |-> attr.value.str, ok |-> TRUE]
    ELSE [value |-> <<>>, ok |-> FALSE]

\* submoduleRegex.FindStringSubmatch(sourceValue): <<>> when there is no
\* match, else <<whole, capture>>; "(.*)" may capture the empty string.
FindStringSubmatch(regex, s) ==
    IF /\ Len(s) > Len(regex)
       /\ SubSeq(s, 1, Len(regex)) = regex
    THEN <<s, SubSeq(s, Len(regex) + 1, Len(s))>>
    ELSE <<>>

\* strings.TrimPrefix(s, "/"): one leading separator, when there is one.
TrimPrefixSlash(s) == IF Len(s) >= 2 /\ s[1] = "" THEN Tail(s) ELSE s

\* Variant of updateModuleBlock that leaves the version attribute in place.
updateModuleBlockKeepVersion(block, moduleSource, submoduleRegex) ==
    LET i == GetAttribute(block.attrs, "source")
        same == [block |-> block, changed |-> FALSE]
    IN  IF i = 0 THEN same
        ELSE LET sv == attributeStringValue(block.attrs[i])
                 matches == FindStringSubmatch(submoduleRegex, sv.value)
             IN  IF ~sv.ok THEN same
                 ELSE IF sv.value = moduleSource
                 THEN [block |-> [block EXCEPT !.attrs =
                                    SetAttributeValue(@, "source", LocalRoot)],
                       changed |-> TRUE]
                 ELSE IF Len(matches) = 2
                 THEN [block |-> [block EXCEPT !.attrs =
                                    RemoveAttribute(
                                      SetAttributeValue(@, "source",
                                        LocalModules \o TrimPrefixSlash(matches[2])),
                                      "version")],
                       changed |-> TRUE]
                 ELSE same

\* Variant of updateModuleBlock that sends a submodule to the local root.
updateModuleBlockRootOnly(block, moduleSource, submoduleRegex) ==
    LET i == GetAttribute(block.attrs, "source")
        same == [block |-> block, changed |-> FALSE]
    IN  IF i = 0 THEN same
        ELSE LET sv == attributeStringValue(block.attrs[i])
                 matches == FindStringSubmatch(submoduleRegex, sv.value)
             IN  IF ~sv.ok THEN same
                 ELSE IF sv.value = moduleSource \/ Len(matches) = 2
                 THEN [block |-> [block EXCEPT !.attrs =
                                    RemoveAttribute(
                                      SetAttributeValue(@, "source", LocalRoot),
                                      "version")],
                       changed |-> TRUE]
                 ELSE same

\* Variant of updateModuleBlock that rewrites every literal source.
updateModuleBlockAnySource(block, moduleSource, submoduleRegex) ==
    LET i == GetAttribute(block.attrs, "source")
        same == [block |-> block, changed |-> FALSE]
    IN  IF i = 0 THEN same
        ELSE LET sv == attributeStringValue(block.attrs[i])
                 matches == FindStringSubmatch(submoduleRegex, sv.value)
             IN  IF ~sv.ok THEN same
                 ELSE IF Len(matches) = 2
                 THEN [block |-> [block EXCEPT !.attrs =
                                    RemoveAttribute(
                                      SetAttributeValue(@, "source",
                                        LocalModules \o TrimPrefixSlash(matches[2])),
                                      "version")],
                       changed |-> TRUE]
                 ELSE [block |-> [block EXCEPT !.attrs =
                                    RemoveAttribute(
                                      SetAttributeValue(@, "source", LocalRoot),
                                      "version")],
                       changed |-> TRUE]

\* Variant of updateModuleBlock whose first case takes the local root for
\* the module source as well.
updateModuleBlockLocalToo(block, moduleSource, submoduleRegex) ==
    LET i == GetAttribute(block.attrs, "source")
        same == [block |-> block, changed |-> FALSE]
    IN  IF i = 0 THEN same
        ELSE LET sv == attributeStringValue(block.attrs[i])
                 matches == FindStringSubmatch(submoduleRegex, sv.value)
             IN  IF ~sv.ok THEN same
                 ELSE IF sv.value = moduleSource \/ sv.value = LocalRoot
                 THEN [block |-> [block EXCEPT !.attrs =
                                    RemoveAttribute(
                                      SetAttributeValue(@, "source", LocalRoot),
                                      "version")],
                       changed |-> TRUE]
                 ELSE IF Len(matches) = 2
                 THEN [block |-> [block EXCEPT !.attrs =
                                    RemoveAttribute(
                                      SetAttributeValue(@, "source",
                                        LocalModules \o TrimPrefixSlash(matches[2])),
                                      "version")],
                       changed |-> TRUE]
                 ELSE same

\* updateModuleBlock: the rewrite of one module block; "changed" is the
\* boolean it returns.
updateModuleBlock(block, moduleSource, submoduleRegex) ==
    LET i == GetAttribute(block.attrs, "source")
        same == [block |-> block, changed |-> FALSE]
    IN  IF i = 0 THEN same
        ELSE LET sv == attributeStringValue(block.attrs[i])
                 matches == FindStringSubmatch(submoduleRegex, sv.value)
             IN  IF ~sv.ok THEN same
                 ELSE IF sv.value = moduleSource
                 THEN [block |-> [block EXCEPT !.attrs =
                                    RemoveAttribute(
                                      SetAttributeValue(@, "source", LocalRoot),
                                      "version")],
                       changed |-> TRUE]
                 ELSE IF Len(matches) = 2
                 THEN [block |-> [block EXCEPT !.attrs =
                                    RemoveAttribute(
                                      SetAttributeValue(@, "source",
                                        LocalModules \o TrimPrefixSlash(matches[2])),
                                      "version")],
                       changed |-> TRUE]
                 ELSE same

\* updateModuleBlocks: every module block of the body, and recursively of
\* the bodies nested in any block; "changed" when some block was rewritten.
RECURSIVE updateModuleBlocks(_, _, _)
updateModuleBlocks(body, moduleSource, submoduleRegex) ==
    IF body = <<>> THEN [body |-> <<>>, changed |-> FALSE]
    ELSE LET b == Head(body)
             r1 == IF b.type = "module"
                   THEN updateModuleBlock(b, moduleSource, submoduleRegex)
                   ELSE [block |-> b, changed |-> FALSE]
             r2 == updateModuleBlocks(r1.block.body, moduleSource, submoduleRegex)
             rest == updateModuleBlocks(Tail(body), moduleSource, submoduleRegex)
         IN  [body |-> <<[r1.block EXCEPT !.body = r2.body]>> \o rest.body,
              changed |-> r1.changed \/ r2.changed \/ rest.changed]

\* The pattern version\s*=\s*"[^"]*" carries no word boundary: it matches
\* a quoted value assigned to any name that ends in "version".
VersionNames == {"version", "required_version"}
MatchesVersionRegex(attr) == attr.name \in VersionNames /\ attr.value.lit

\* ReplaceAllString over the text: every match, in every block.
RECURSIVE ReplaceAllVersions(_, _)
ReplaceAllVersions(body, latestVersion) ==
    [k \in 1..Len(body) |->
       [body[k] EXCEPT
          !.attrs = [j \in 1..Len(@) |->
                       IF MatchesVersionRegex(@[j])
                       THEN Attr(@[j].name, Lit(<<"~>", latestVersion>>))
                       ELSE @[j]],
          !.body = ReplaceAllVersions(@, latestVersion)]]

\* Variant of updateVersionInContent that writes the bare version.
updateVersionInContentExact(content, latestVersion) ==
    IF content.kind = "hcl"
    THEN [content EXCEPT !.body =
            [k \in 1..Len(@) |->
               [@[k] EXCEPT !.attrs = [j \in 1..Len(@) |->
                    IF MatchesVersionRegex(@[j])
                    THEN Attr(@[j].name, Lit(<<latestVersion>>))
                    ELSE @[j]]]]]
    ELSE content

\* updateVersionInContent(content, latestVersion)
updateVersionInContent(content, latestVersion) ==
    IF content.kind = "hcl"
    THEN [content EXCEPT !.body = ReplaceAllVersions(@, latestVersion)]
    ELSE content

\* File contents.  Text that hclwrite.ParseConfig accepts is its parsed
\* body; "garbage" is text it rejects; "partial" is what a failed
\* os.WriteFile may leave behind after truncating the file.
Hcl(body) == [kind |-> "hcl", body |-> body]
Garbage == [kind |-> "garbage", body |-> <<>>]
Partial == [kind |-> "partial", body |-> <<>>]

\* A module block with a quoted source and, unless ver is empty, a version.
ModuleBlock(src, ver) ==
    Block("module",
          <<Attr("source", Lit(src))>> \o
            (IF ver = <<>> THEN <<>> ELSE <<Attr("version", Lit(ver))>>),
          <<>>)

Canonical == ModuleSourceOf(moduleInfo)
SubmoduleNet == Canonical \o <<"", "modules", "net">>
Unrelated == <<"other", "thing", "provider">>

\* The files the model puts on disk.
CanonFile == Hcl(<<ModuleBlock(Canonical, <<"1.0.0">>)>>)
SubFile == Hcl(<<ModuleBlock(SubmoduleNet, <<"~>", "1.0">>)>>)
OtherFile == Hcl(<<ModuleBlock(Unrelated, <<"0.1.0">>)>>)
LocalFile == Hcl(<<ModuleBlock(LocalRoot, <<>>)>>)
MixedFile ==
    Hcl(<<Block("terraform", <<Attr("required_version", Lit(<<">=", "1.0">>))>>, <<>>),
          ModuleBlock(Canonical, <<"1.0.0">>),
          ModuleBlock(Unrelated, <<"0.1.0">>)>>)
NestedFile ==
    Hcl(<<Block("resource", <<Attr("source", Lit(Canonical))>>,
                <<ModuleBlock(Canonical \o <<"", "modules", "", "net">>, <<>>)>>)>>)
ExprFile ==
    Hcl(<<Block("module", <<Attr("source", NonLiteral),
                            Attr("version", Lit(<<"1.0.0">>))>>, <<>>)>>)

FileContents ==
    {CanonFile, SubFile, OtherFile, LocalFile, MixedFile, NestedFile,
     ExprFile, Garbage}

\* What the registry answers when the lookup succeeds.
LatestVersions == {"2.0.0"}

\* A FileRestore literal that holds the rewritten content.
FileRestoreRewritten(path, content, info) ==
    [Path |-> path,
     OriginalContent |->
         Hcl(updateModuleBlocks(content.body, ModuleSourceOf(info),
                                SubmoduleRegexOf(info)).body),
     ModuleName |-> info.Name,
     Provider |-> info.Provider, Namespace |-> info.Namespace]

\* The FileRestore literal appended by ConvertToLocal.
FileRestore(path, content, info) ==
    [Path |-> path, OriginalContent |-> content, ModuleName |-> info.Name,
     Provider |-> info.Provider, Namespace |-> info.Namespace]

\* All files, in glob (lexical) order, and those of module m's directory.
AllFiles == [k \in 1..NumFiles |-> k]
Glob(m) == SelectSeq(AllFiles, LAMBDA f : dirOf[f] = m)

\* The files spread over the module directories, one after the other, and
\* all the files in the directory of the first module.
Spread == [f \in Files |-> ((f - 1) % NumModules) + 1]
Packed == [f \in Files |-> 1]

NoReturn == [files |-> <<>>, err |-> "none"]

\* The registry's answer to GET <baseURL>/<namespace>/<name>/<provider>/versions
\* as GetLatestVersion sees it: building the request or the round trip may
\* fail, the status is 200 or not, reading the body may fail, and the body is
\* either not JSON or a TerraformRegistryResponse with its list of versions.
MaxVersions == 2
StatusOK == 200
StatusInternalServerError == 500
Versions == {"1.0.0", "2.0.0", "10.0.0"}
VersionLists == UNION {[1..n -> Versions] : n \in 0..MaxVersions}
Malformed == [kind |-> "malformed", versions |-> <<>>]
Json(versions) == [kind |-> "json", versions |-> versions]
Bodies == {Malformed} \cup {Json(v) : v \in VersionLists}
Responses ==
    [reqErr : BOOLEAN, netErr : BOOLEAN,
     status : {StatusOK, StatusInternalServerError}, readErr : BOOLEAN,
     body : Bodies]

Failure(e) == [version |-> "", err |-> e]
NoVersion == [version |-> "", err |-> "none"]

\* A variant of GetLatestVersion that returns the last entry of the list.
GetLatestVersionLast(r) ==
    IF r.reqErr THEN Failure("request")
    ELSE IF r.netErr THEN Failure("fetch")
    ELSE IF r.status # StatusOK THEN Failure("status")
    ELSE IF r.readErr THEN Failure("read")
    ELSE IF r.body.kind # "json" THEN Failure("parse")
    ELSE IF Len(r.body.versions) = 0 THEN Failure("empty")
    ELSE [version |-> r.body.versions[Len(r.body.versions)], err |-> "nil"]

\* DefaultRegistryClient.GetLatestVersion: every failure returns "" and an
\* error; otherwise the Version of Versions[0], the list taken as it came.
GetLatestVersion(r) ==
    IF r.reqErr THEN Failure("request")
    ELSE IF r.netErr THEN Failure("fetch")
    ELSE IF r.status # StatusOK THEN Failure("status")
    ELSE IF r.readErr THEN Failure("read")
    ELSE IF r.body.kind # "json" THEN Failure("parse")
    ELSE IF Len(r.body.versions) = 0 THEN Failure("empty")
    ELSE [version |-> r.body.versions[1], err |-> "nil"]

\* Names of directory entries, as the sequence of their parts, and glob
\* patterns "*lit*" (open) and "*lit" as the literal between the stars.
DotTerraform == <<".", "terraform">>
TfState == <<"terraform", ".", "tfstate">>
TfStateBackup == <<"terraform", ".", "tfstate", ".", "backup">>
LockHcl == <<".", "terraform", ".", "lock", ".", "hcl">>
MainTf == <<"main", ".", "tf">>
Artifacts == {DotTerraform, TfState, TfStateBackup, LockHcl, MainTf}

Pattern(lit, open) == [lit |-> lit, open |-> open]
filesToCleanup ==
    << Pattern(<<".", "terraform">>, TRUE),
       Pattern(<<"tfstate">>, TRUE),
       Pattern(<<".", "lock", ".", "hcl">>, FALSE) >>

\* filepath.Match of a pattern against a name: the literal occurs at
\* position k of the name, at any k for "*lit*", at the end for "*lit".
OccursAt(lit, name, k) ==
    /\ k + Len(lit) - 1 <= Len(name)
    /\ \A i \in 1..Len(lit) : name[k + i - 1] = lit[i]
Match(pattern, name) ==
    \E k \in 1..Len(name) :
        /\ OccursAt(pattern.lit, name, k)
        /\ pattern.open \/ k + Len(pattern.lit) - 1 = Len(name)

\* The entries in the directory's (lexical) order, and filepath.Glob.
RECURSIVE SortedNames(_)
SortedNames(S) ==
    IF S = {} THEN <<>>
    ELSE LET Order == <<DotTerraform, LockHcl, MainTf, TfState, TfStateBackup>>
             first == CHOOSE a \in S :
                          \A b \in S : \E i, j \in 1..Len(Order) :
                              Order[i] = a /\ Order[j] = b /\ i <= j
         IN  <<first>> \o SortedNames(S \ {first})
GlobMatches(pattern, entries) ==
    SelectSeq(SortedNames(entries), LAMBDA a : Match(pattern, a))

\* Nothing outside the run itself is in use: the files are spread over the
\* module directories, no registry request and no Cleanup call is under way.
RegistryIdle ==
    /\ resp = [reqErr |-> FALSE, netErr |-> FALSE, status |-> StatusOK,
               readErr |-> FALSE, body |-> Json(<<"2.0.0">>)]
    /\ regRet = NoVersion
CleanupIdle ==
    /\ created = {}
    /\ present = {}
    /\ kDone = FALSE
    /\ kpc = "idle"
    /\ kIdx = 1
    /\ kMatches = <<>>
    /\ kRet = "none"

\* The options Run may be given, and the state in which Run is not in use.
RunOptions ==
    [example : {"none", "excepted", "one"}, useLocalSrc : BOOLEAN,
     skipDestroy : BOOLEAN]
RunIdle ==
    /\ runOpts = [example |-> "none", useLocalSrc |-> FALSE,
                  skipDestroy |-> FALSE]
    /\ discovered = 0
    /\ tpc = "idle"
    /\ rpc = "idle"
    /\ rmods = 0
    /\ rLoop = 1
    /\ wpc = [m \in Modules |-> "idle"]
    /\ resultChan = <<>>
    /\ results = <<>>
    /\ runErr = "none"

----------------------------------------------------------------------------
ConfigInit ==
    /\ skipDestroy \in BOOLEAN
    /\ parallel \in BOOLEAN
    /\ exceptionList \in SUBSET Modules

\* runModuleTests has not started; every Module is as NewModule built it.
RunnerInit ==
    /\ mpc = "setup"
    /\ idx = 1
    /\ spc = [m \in Modules |-> "idle"]
    /\ Errors = [m \in Modules |-> <<>>]
    /\ ApplyFailed = [m \in Modules |-> FALSE]
    /\ tFailed = [m \in Modules |-> FALSE]
    /\ applyRet = [m \in Modules |-> "none"]
    /\ destroyRet = [m \in Modules |-> "none"]
    /\ teardown = [m \in Modules |-> "none"]
    /\ cleanup = [m \in Modules |-> "none"]
    /\ applyCalls = [m \in Modules |-> 0]
    /\ destroyCalls = [m \in Modules |-> 0]
    /\ mu = 0
    /\ trModules = <<>>
    /\ trFailed = <<>>
    /\ local = [m \in Modules |-> <<>>]
    /\ summaries = <<>>

\* No converter call is in progress and nothing has been converted.
ConverterIdle ==
    /\ orig = disk
    /\ lookup = [f \in Files |-> "none"]
    /\ revWrites = <<>>
    /\ ctxDone = FALSE
    /\ cpc = "idle"
    /\ cDir = <<>>
    /\ cIdx = 1
    /\ filesToRestore = <<>>
    /\ convRet = NoReturn
    /\ revertList = <<>>
    /\ rIdx = 1
    /\ revertRet = "none"
    /\ sIdx = 0
    /\ allFilesToRestore = <<>>
    /\ revertPending = FALSE
    /\ warnings = {}

\* A run whose setup function is not the local-source setup: the converter
\* is never called and the files stay as they are.
Init ==
    /\ ConfigInit
    /\ RunnerInit
    /\ disk = [f \in Files |-> CanonFile]
    /\ ConverterIdle
    /\ dirOf = Spread
    /\ convCalls = 0
    /\ RunIdle
    /\ RegistryIdle
    /\ CleanupIdle

\* runModuleTests, lines 265-269: the optional setup function.  A nil setup
\* and a setup returning nil both continue; an error is t.Fatal.
Setup ==
    /\ mpc = "setup"
    /\ \E err \in BOOLEAN : mpc' = IF err THEN "fatal" ELSE "loop"
    /\ UNCHANGED <<sideVars, convVars, cfgVars, idx, spc, modVars, tFailed, histVars, trVars, summaries>>

\* One iteration of the loop for an excluded module: logged and skipped.
LoopSkip ==
    /\ mpc = "loop"
    /\ idx <= NumModules
    /\ IsException(idx)
    /\ idx' = idx + 1
    /\ UNCHANGED <<sideVars, convVars, cfgVars, mpc, spc, modVars, tFailed, histVars, trVars, summaries>>

\* One iteration of the loop for a module that runs: t.Run starts the
\* subtest goroutine and blocks until it completes or calls t.Parallel.
LoopRun ==
    /\ mpc = "loop"
    /\ idx <= NumModules
    /\ ~IsException(idx)
    /\ spc' = [spc EXCEPT ![idx] = "start"]
    /\ mpc' = "wait"
    /\ UNCHANGED <<sideVars, convVars, cfgVars, idx, modVars, tFailed, histVars, trVars, summaries>>

\* t.Run returns: the subtest finished or parked itself in t.Parallel.
LoopResume ==
    /\ mpc = "wait"
    /\ spc[idx] \in {"paused", "done"}
    /\ mpc' = "loop"
    /\ idx' = idx + 1
    /\ UNCHANGED <<sideVars, convVars, cfgVars, spc, modVars, tFailed, histVars, trVars, summaries>>

\* End of the loop: t.Cleanup registers the summary and the test function
\* returns, which releases the parallel subtests.
Return ==
    /\ mpc = "loop"
    /\ idx > NumModules
    /\ mpc' = "returned"
    /\ UNCHANGED <<sideVars, convVars, cfgVars, idx, spc, modVars, tFailed, histVars, trVars, summaries>>

\* The deferred summary: testing runs the cleanup once every subtest of the
\* parent has completed.
Summary ==
    /\ mpc = "returned"
    /\ \A m \in Modules : spc[m] \in {"idle", "done"}
    /\ summaries' = Append(summaries, PrintModuleSummary(SummaryModules))
    /\ mpc' = "done"
    /\ UNCHANGED <<sideVars, convVars, cfgVars, idx, spc, modVars, tFailed, histVars, trVars>>

----------------------------------------------------------------------------
\* Variant of the subtest that calls t.Parallel() whatever the flag.
SubtestBeginAlwaysParallel(m) ==
    /\ spc[m] = "start"
    /\ spc' = [spc EXCEPT ![m] = "paused"]
    /\ UNCHANGED <<sideVars, convVars, cfgVars, mpc, idx, modVars, tFailed, histVars, trVars, summaries>>

\* The subtest closure begins: "if parallel { t.Parallel() }".
SubtestBegin(m) ==
    /\ spc[m] = "start"
    /\ spc' = [spc EXCEPT ![m] = IF parallel THEN "paused" ELSE "apply"]
    /\ UNCHANGED <<sideVars, convVars, cfgVars, mpc, idx, modVars, tFailed, histVars, trVars, summaries>>

\* t.Parallel returns once the parent test function has returned.
SubtestRelease(m) ==
    /\ spc[m] = "paused"
    /\ mpc = "returned"
    /\ spc' = [spc EXCEPT ![m] = "apply"]
    /\ UNCHANGED <<sideVars, convVars, cfgVars, mpc, idx, modVars, tFailed, histVars, trVars, summaries>>

\* Variant in which the closures share one loop variable: the subtest
\* applies the module the loop is at, the last one once the loop is over.
ApplyCallShared(m) ==
    /\ spc[m] = "apply"
    /\ applyCalls' = [applyCalls EXCEPT
                        ![IF idx <= NumModules THEN idx ELSE NumModules] = @ + 1]
    /\ spc' = [spc EXCEPT ![m] = "applying"]
    /\ UNCHANGED <<sideVars, convVars, cfgVars, mpc, idx, modVars, tFailed, applyRet, destroyRet,
                   teardown, cleanup, destroyCalls, trVars, summaries>>

\* module.Apply is invoked (the external provisioning call is in flight).
ApplyCall(m) ==
    /\ spc[m] = "apply"
    /\ applyCalls' = [applyCalls EXCEPT ![m] = @ + 1]
    /\ spc' = [spc EXCEPT ![m] = "applying"]
    /\ UNCHANGED <<sideVars, convVars, cfgVars, mpc, idx, modVars, tFailed, applyRet, destroyRet,
                   teardown, cleanup, destroyCalls, trVars, summaries>>

\* Variant of the subtest that ends itself (t.FailNow) when Apply fails.
ApplyReturnFailNow(m) ==
    /\ spc[m] = "applying"
    /\ \E err \in BOOLEAN :
         LET r == ModuleApply(Errors[m], ApplyFailed[m], err) IN
         /\ Errors' = [Errors EXCEPT ![m] = r.Errors]
         /\ ApplyFailed' = [ApplyFailed EXCEPT ![m] = r.ApplyFailed]
         /\ applyRet' = [applyRet EXCEPT ![m] = r.ret]
         /\ tFailed' = [tFailed EXCEPT ![m] = @ \/ r.ret = "err"]
         /\ spc' = [spc EXCEPT ![m] = IF err THEN "done" ELSE "applied"]
    /\ UNCHANGED <<sideVars, convVars, cfgVars, mpc, idx, destroyRet, teardown, cleanup,
                   applyCalls, destroyCalls, trVars, summaries>>

\* module.Apply returns; on error the subtest calls t.Fail().
ApplyReturn(m) ==
    /\ spc[m] = "applying"
    /\ \E err \in BOOLEAN :
         LET r == ModuleApply(Errors[m], ApplyFailed[m], err) IN
         /\ Errors' = [Errors EXCEPT ![m] = r.Errors]
         /\ ApplyFailed' = [ApplyFailed EXCEPT ![m] = r.ApplyFailed]
         /\ applyRet' = [applyRet EXCEPT ![m] = r.ret]
         /\ tFailed' = [tFailed EXCEPT ![m] = @ \/ r.ret = "err"]
    /\ spc' = [spc EXCEPT ![m] = "applied"]
    /\ UNCHANGED <<sideVars, convVars, cfgVars, mpc, idx, destroyRet, teardown, cleanup,
                   applyCalls, destroyCalls, trVars, summaries>>

\* Variant of the subtest that also omits Destroy after a failed Apply.
SkipDestroyAfterFailedApply(m) ==
    /\ spc[m] = "applied"
    /\ (skipDestroy \/ ApplyFailed[m])
    /\ spc' = [spc EXCEPT ![m] = "add"]
    /\ UNCHANGED <<sideVars, convVars, cfgVars, mpc, idx, modVars, tFailed, histVars, trVars, summaries>>

\* "if !config.SkipDestroy" is false: Destroy is omitted.
SkipDestroy(m) ==
    /\ spc[m] = "applied"
    /\ skipDestroy
    /\ spc' = [spc EXCEPT ![m] = "add"]
    /\ UNCHANGED <<sideVars, convVars, cfgVars, mpc, idx, modVars, tFailed, histVars, trVars, summaries>>

\* Variant of the subtest that calls Destroy without consulting SkipDestroy.
DestroyCallAlways(m) ==
    /\ spc[m] = "applied"
    /\ destroyCalls' = [destroyCalls EXCEPT ![m] = @ + 1]
    /\ spc' = [spc EXCEPT ![m] = "destroying"]
    /\ UNCHANGED <<sideVars, convVars, cfgVars, mpc, idx, modVars, tFailed, applyRet, destroyRet,
                   teardown, cleanup, applyCalls, trVars, summaries>>

\* module.Destroy is invoked (the external teardown call is in flight).
DestroyCall(m) ==
    /\ spc[m] = "applied"
    /\ ~skipDestroy
    /\ destroyCalls' = [destroyCalls EXCEPT ![m] = @ + 1]
    /\ spc' = [spc EXCEPT ![m] = "destroying"]
    /\ UNCHANGED <<sideVars, convVars, cfgVars, mpc, idx, modVars, tFailed, applyRet, destroyRet,
                   teardown, cleanup, applyCalls, trVars, summaries>>

\* Variant of Destroy that returns right after a failed teardown.
DestroyReturnEarly(m) ==
    /\ spc[m] = "destroying"
    /\ \E destroyErr \in BOOLEAN, cleanupErr \in BOOLEAN :
         LET r == ModuleDestroy(Errors[m], ApplyFailed[m], destroyErr,
                                cleanupErr /\ ~destroyErr) IN
         /\ Errors' = [Errors EXCEPT ![m] = r.Errors]
         /\ destroyRet' = [destroyRet EXCEPT ![m] = r.ret]
         /\ teardown' = [teardown EXCEPT ![m] = IF destroyErr THEN "fail" ELSE "ok"]
         /\ cleanup' = [cleanup EXCEPT ![m] =
                          IF destroyErr THEN "none"
                          ELSE IF cleanupErr THEN "fail" ELSE "ok"]
    /\ spc' = [spc EXCEPT ![m] = "add"]
    /\ UNCHANGED <<sideVars, convVars, cfgVars, mpc, idx, ApplyFailed, tFailed, applyRet,
                   applyCalls, destroyCalls, trVars, summaries>>

\* module.Destroy returns after teardown and cleanupFiles; the subtest only
\* logs a returned error (t.Logf), it does not call t.Fail.
DestroyReturn(m) ==
    /\ spc[m] = "destroying"
    /\ \E destroyErr \in BOOLEAN, cleanupErr \in BOOLEAN :
         LET r == ModuleDestroy(Errors[m], ApplyFailed[m], destroyErr, cleanupErr) IN
         /\ Errors' = [Errors EXCEPT ![m] = r.Errors]
         /\ destroyRet' = [destroyRet EXCEPT ![m] = r.ret]
         /\ teardown' = [teardown EXCEPT ![m] = IF destroyErr THEN "fail" ELSE "ok"]
         /\ cleanup' = [cleanup EXCEPT ![m] = IF cleanupErr THEN "fail" ELSE "ok"]
    /\ spc' = [spc EXCEPT ![m] = "add"]
    /\ UNCHANGED <<sideVars, convVars, cfgVars, mpc, idx, ApplyFailed, tFailed, applyRet,
                   applyCalls, destroyCalls, trVars, summaries>>

\* Variant of Lock that does not wait for the mutex to be free.
LockNoExclusion(m) ==
    mu' = m

\* tr.mu.Lock()
Lock(m) ==
    /\ mu = 0
    /\ mu' = m

\* tr.mu.Unlock()
Unlock(m) ==
    mu' = 0

\* Variant of AddModule that reads the slice without waiting for the lock.
AddModuleLockUnguarded(m) ==
    /\ spc[m] = "add"
    /\ mu' = m
    /\ local' = [local EXCEPT ![m] = trModules]
    /\ spc' = [spc EXCEPT ![m] = "adding"]
    /\ UNCHANGED <<sideVars, convVars, cfgVars, mpc, idx, modVars, tFailed, histVars, trModules,
                   trFailed, summaries>>

\* results.AddModule(module), first half: take the lock; append reads the
\* slice it is about to extend.
AddModuleLock(m) ==
    /\ spc[m] = "add"
    /\ Lock(m)
    /\ local' = [local EXCEPT ![m] = trModules]
    /\ spc' = [spc EXCEPT ![m] = "adding"]
    /\ UNCHANGED <<sideVars, convVars, cfgVars, mpc, idx, modVars, tFailed, histVars, trModules,
                   trFailed, summaries>>

\* Variant of AddModule that takes a module as failed when ApplyFailed is set.
AddModuleStoreByFlag(m) ==
    /\ spc[m] = "adding"
    /\ trModules' = Append(local[m], m)
    /\ trFailed' = IF ApplyFailed[m] THEN Append(trFailed, m) ELSE trFailed
    /\ local' = [local EXCEPT ![m] = <<>>]
    /\ Unlock(m)
    /\ spc' = [spc EXCEPT ![m] = "done"]
    /\ UNCHANGED <<sideVars, convVars, cfgVars, mpc, idx, modVars, tFailed, histVars, summaries>>

\* results.AddModule(module), second half: store the extended slice, append
\* to failedModules when the module has errors, and (deferred) unlock.
AddModuleStore(m) ==
    /\ spc[m] = "adding"
    /\ trModules' = Append(local[m], m)
    /\ trFailed' = IF Len(Errors[m]) > 0 THEN Append(trFailed, m) ELSE trFailed
    /\ local' = [local EXCEPT ![m] = <<>>]
    /\ Unlock(m)
    /\ spc' = [spc EXCEPT ![m] = "done"]
    /\ UNCHANGED <<sideVars, convVars, cfgVars, mpc, idx, modVars, tFailed, histVars, summaries>>

Subtest(m) ==
    \/ SubtestBegin(m)
    \/ SubtestRelease(m)
    \/ ApplyCall(m)
    \/ ApplyReturn(m)
    \/ SkipDestroy(m)
    \/ DestroyCall(m)
    \/ DestroyReturn(m)
    \/ AddModuleLock(m)
    \/ AddModuleStore(m)

Main ==
    \/ Setup
    \/ LoopSkip
    \/ LoopRun
    \/ LoopResume
    \/ Return
    \/ Summary

Next ==
    \/ Main
    \/ \E m \in Modules : Subtest(m)

Spec == Init /\ [][Next]_vars

\* The Go scheduler runs every runnable goroutine, and the external calls
\* return: each subtest and the parent test keep taking their next step.
FairSpec ==
    /\ Spec
    /\ WF_vars(Main)
    /\ \A m \in Modules : WF_vars(Subtest(m))

TypeOK ==
    /\ mpc \in {"setup", "fatal", "loop", "wait", "returned", "done"}
    /\ idx \in 1..(NumModules + 1)
    /\ \A m \in Modules :
         spc[m] \in {"idle", "start", "paused", "apply", "applying", "applied",
                     "destroying", "add", "adding", "done"}
    /\ mu \in 0..NumModules

----------------------------------------------------------------------------
\* ConvertToLocal and RevertToRegistry, one loop iteration per step: the
\* context can be cancelled by its owner between two iterations.

\* ConvertToLocal, one iteration of "for _, file := range files".
ConvertFile ==
    /\ cpc = "convert"
    /\ cIdx <= Len(cDir)
    /\ LET file == cDir[cIdx]
           content == disk[file]
           r == updateModuleBlocks(content.body, ModuleSourceOf(moduleInfo),
                                   SubmoduleRegexOf(moduleInfo))
       IN  IF ctxDone
           THEN \* case <-ctx.Done(): return nil, ctx.Err()
                /\ convRet' = [files |-> <<>>, err |-> "cancelled"]
                /\ cpc' = "converted"
                /\ UNCHANGED <<disk, cIdx, filesToRestore>>
           ELSE \/ \* os.ReadFile failed: continue
                   /\ cIdx' = cIdx + 1
                   /\ UNCHANGED <<disk, cpc, filesToRestore, convRet>>
                \/ \* diags.HasErrors(): return filesToRestore, error
                   /\ content.kind # "hcl"
                   /\ convRet' = [files |-> filesToRestore, err |-> "parse"]
                   /\ cpc' = "converted"
                   /\ UNCHANGED <<disk, cIdx, filesToRestore>>
                \/ \* no block was rewritten: continue
                   /\ content.kind = "hcl"
                   /\ ~r.changed
                   /\ cIdx' = cIdx + 1
                   /\ UNCHANGED <<disk, cpc, filesToRestore, convRet>>
                \/ \* os.WriteFile succeeded: record the FileRestore
                   /\ content.kind = "hcl"
                   /\ r.changed
                   /\ disk' = [disk EXCEPT ![file] = Hcl(r.body)]
                   /\ filesToRestore' =
                        Append(filesToRestore, FileRestore(file, content, moduleInfo))
                   /\ cIdx' = cIdx + 1
                   /\ UNCHANGED <<cpc, convRet>>
                \/ \* os.WriteFile failed: return filesToRestore, error
                   /\ content.kind = "hcl"
                   /\ r.changed
                   /\ disk' \in {disk, [disk EXCEPT ![file] = Partial]}
                   /\ convRet' = [files |-> filesToRestore, err |-> "write"]
                   /\ cpc' = "converted"
                   /\ UNCHANGED <<cIdx, filesToRestore>>
    /\ UNCHANGED <<sideVars, runVars, orig, lookup, revWrites, ctxDone, cDir,
                   revertList, rIdx, revertRet, setupVars>>

\* ConvertToLocal, after the loop: return filesToRestore, nil.
ConvertReturn ==
    /\ cpc = "convert"
    /\ cIdx > Len(cDir)
    /\ convRet' = [files |-> filesToRestore, err |-> "nil"]
    /\ cpc' = "converted"
    /\ UNCHANGED <<sideVars, runVars, diskVars, ctxDone, cDir, cIdx, filesToRestore,
                   revertList, rIdx, revertRet, setupVars>>

\* Variant of RevertToRegistry that returns the lookup error instead of
\* falling back to the original content.
RevertFileNoFallback ==
    /\ cpc = "revert"
    /\ rIdx <= Len(revertList)
    /\ LET restore == revertList[rIdx] IN
       IF ctxDone
       THEN /\ revertRet' = "cancelled"
            /\ cpc' = "reverted"
            /\ UNCHANGED <<disk, lookup, revWrites, rIdx>>
       ELSE \/ /\ lookup' = [lookup EXCEPT ![restore.Path] = "err"]
               /\ revertRet' = "lookup"
               /\ cpc' = "reverted"
               /\ UNCHANGED <<disk, revWrites, rIdx>>
            \/ \E latestVersion \in LatestVersions :
                 /\ lookup' = [lookup EXCEPT ![restore.Path] = latestVersion]
                 /\ \/ /\ disk' = [disk EXCEPT ![restore.Path] =
                                     updateVersionInContent(restore.OriginalContent,
                                                            latestVersion)]
                       /\ revWrites' = Append(revWrites, restore.Path)
                       /\ rIdx' = rIdx + 1
                       /\ UNCHANGED <<cpc, revertRet>>
                    \/ /\ disk' \in {disk, [disk EXCEPT ![restore.Path] = Partial]}
                       /\ revertRet' = "write"
                       /\ cpc' = "reverted"
                       /\ UNCHANGED <<revWrites, rIdx>>
    /\ UNCHANGED <<sideVars, runVars, orig, ctxDone, cDir, cIdx, filesToRestore, convRet,
                   revertList, setupVars>>

\* Variant of RevertToRegistry that looks at the context before the first
\* entry only.
RevertFileCheckOnce ==
    /\ cpc = "revert"
    /\ rIdx <= Len(revertList)
    /\ LET restore == revertList[rIdx] IN
       IF ctxDone /\ rIdx = 1
       THEN /\ revertRet' = "cancelled"
            /\ cpc' = "reverted"
            /\ UNCHANGED <<disk, lookup, revWrites, rIdx>>
       ELSE \E found \in BOOLEAN, latestVersion \in LatestVersions :
              LET content == IF found
                             THEN updateVersionInContent(restore.OriginalContent,
                                                         latestVersion)
                             ELSE restore.OriginalContent
              IN  /\ lookup' = [lookup EXCEPT ![restore.Path] =
                                  IF found THEN latestVersion ELSE "err"]
                  /\ \/ /\ disk' = [disk EXCEPT ![restore.Path] = content]
                        /\ revWrites' = Append(revWrites, restore.Path)
                        /\ rIdx' = rIdx + 1
                        /\ UNCHANGED <<cpc, revertRet>>
                     \/ /\ disk' \in {disk, [disk EXCEPT ![restore.Path] = Partial]}
                        /\ revertRet' = "write"
                        /\ cpc' = "reverted"
                        /\ UNCHANGED <<revWrites, rIdx>>
    /\ UNCHANGED <<sideVars, runVars, orig, ctxDone, cDir, cIdx, filesToRestore, convRet,
                   revertList, setupVars>>

\* RevertToRegistry, one iteration of "for _, restore := range
\* filesToRestore".
RevertFile ==
    /\ cpc = "revert"
    /\ rIdx <= Len(revertList)
    /\ LET restore == revertList[rIdx] IN
       IF ctxDone
       THEN \* case <-ctx.Done(): return ctx.Err()
            /\ revertRet' = "cancelled"
            /\ cpc' = "reverted"
            /\ UNCHANGED <<disk, lookup, revWrites, rIdx>>
       ELSE \E found \in BOOLEAN, latestVersion \in LatestVersions :
              LET content == IF found
                             THEN updateVersionInContent(restore.OriginalContent,
                                                         latestVersion)
                             ELSE restore.OriginalContent
              IN  /\ lookup' = [lookup EXCEPT ![restore.Path] =
                                  IF found THEN latestVersion ELSE "err"]
                  /\ \/ \* os.WriteFile succeeded
                        /\ disk' = [disk EXCEPT ![restore.Path] = content]
                        /\ revWrites' = Append(revWrites, restore.Path)
                        /\ rIdx' = rIdx + 1
                        /\ UNCHANGED <<cpc, revertRet>>
                     \/ \* os.WriteFile failed: return the error
                        /\ disk' \in {disk, [disk EXCEPT ![restore.Path] = Partial]}
                        /\ revertRet' = "write"
                        /\ cpc' = "reverted"
                        /\ UNCHANGED <<revWrites, rIdx>>
    /\ UNCHANGED <<sideVars, runVars, orig, ctxDone, cDir, cIdx, filesToRestore, convRet,
                   revertList, setupVars>>

\* RevertToRegistry, after the loop: return nil.
RevertReturn ==
    /\ cpc = "revert"
    /\ rIdx > Len(revertList)
    /\ revertRet' = "nil"
    /\ cpc' = "reverted"
    /\ UNCHANGED <<sideVars, runVars, diskVars, ctxDone, cDir, cIdx, filesToRestore,
                   convRet, revertList, rIdx, setupVars>>

----------------------------------------------------------------------------
\* The converter used on its own, as in src/converter_test.go: a client
\* converts one directory holding every file, then reverts what
\* ConvertToLocal returned; it may cancel the context at any moment.

\* ConvertToLocal is called; the context may be cancelled already.
ClientConvert ==
    /\ cpc = "idle"
    /\ cDir' = AllFiles
    /\ cIdx' = 1
    /\ filesToRestore' = <<>>
    /\ ctxDone' \in BOOLEAN
    /\ cpc' = "convert"
    /\ UNCHANGED <<sideVars, runVars, diskVars, convRet, revertList, rIdx, revertRet,
                   setupVars>>

\* The owner of the context cancels it.
Cancel ==
    /\ cpc \in {"convert", "revert"}
    /\ ~ctxDone
    /\ ctxDone' = TRUE
    /\ UNCHANGED <<sideVars, runVars, diskVars, cpc, cDir, cIdx, filesToRestore, convRet,
                   revertList, rIdx, revertRet, setupVars>>

\* RevertToRegistry is called with the entries ConvertToLocal returned,
\* under the same context or under a fresh one.
ClientRevert ==
    /\ cpc = "converted"
    /\ revertList' = convRet.files
    /\ rIdx' = 1
    /\ \E fresh \in BOOLEAN : ctxDone' = IF fresh THEN FALSE ELSE ctxDone
    /\ cpc' = "revert"
    /\ UNCHANGED <<sideVars, runVars, diskVars, cDir, cIdx, filesToRestore, convRet,
                   revertRet, setupVars>>

ConvInit ==
    /\ skipDestroy = FALSE
    /\ parallel = FALSE
    /\ exceptionList = {}
    /\ RunnerInit
    /\ disk \in [Files -> FileContents]
    /\ ConverterIdle
    /\ dirOf = Spread
    /\ convCalls = 0
    /\ RunIdle
    /\ RegistryIdle
    /\ CleanupIdle

ConvNext ==
    \/ ClientConvert
    \/ Cancel
    \/ ConvertFile
    \/ ConvertReturn
    \/ ClientRevert
    \/ RevertFile
    \/ RevertReturn

ConvSpec == ConvInit /\ [][ConvNext]_vars

\* The client calls ConvertToLocal once more, with the same module identity
\* and a fresh context, on the directory a first call has gone through
\* without an error.
ClientConvertAgain ==
    /\ cpc = "converted"
    /\ convRet.err = "nil"
    /\ convCalls = 0
    /\ RunIdle
    /\ convCalls' = 1
    /\ cDir' = AllFiles
    /\ cIdx' = 1
    /\ filesToRestore' = <<>>
    /\ ctxDone' = FALSE
    /\ cpc' = "convert"
    /\ UNCHANGED <<runVars, diskVars, convRet, revertList, rIdx, revertRet,
                   setupVars, dirOf, regVars, cleanVars, chanVars>>

TwiceNext ==
    \/ ConvNext
    \/ ClientConvertAgain

TwiceSpec == ConvInit /\ [][TwiceNext]_vars

----------------------------------------------------------------------------
\* A run whose setup function is createLocalSetupFunc(config): the
\* directories of the modules are converted before the loop of
\* runModuleTests, and the reversal is a cleanup of the parent test.  It
\* was registered before the summary's cleanup and so runs after it.

\* What the setup may find on disk.
LocalContents == {CanonFile, Garbage}

\* extractModuleInfoFromRepo and the test that follows it: with no name or
\* no provider the setup returns an error, which runModuleTests makes
\* t.Fatal; otherwise convertModulesToLocal begins.
LocalSetupBegin ==
    /\ mpc = "setup"
    /\ sIdx = 0
    /\ \E known \in BOOLEAN :
         IF known THEN sIdx' = 1 /\ mpc' = mpc
         ELSE mpc' = "fatal" /\ sIdx' = sIdx
    /\ UNCHANGED <<sideVars, cfgVars, idx, spc, modVars, tFailed, histVars, trVars,
                   summaries, diskVars, callVars, allFilesToRestore,
                   revertPending, warnings>>

\* convertModulesToLocal: a module named in the exception list is skipped.
ConvertSkip ==
    /\ mpc = "setup"
    /\ sIdx \in Modules
    /\ cpc = "idle"
    /\ IsException(sIdx)
    /\ sIdx' = sIdx + 1
    /\ UNCHANGED <<sideVars, runVars, diskVars, callVars, allFilesToRestore,
                   revertPending, warnings>>

\* Variant of convertModulesToLocal that converts the excluded modules too.
ConvertCallAll ==
    /\ mpc = "setup"
    /\ sIdx \in Modules
    /\ cpc = "idle"
    /\ cDir' = Glob(sIdx)
    /\ cIdx' = 1
    /\ filesToRestore' = <<>>
    /\ ctxDone' = FALSE
    /\ cpc' = "convert"
    /\ UNCHANGED <<sideVars, runVars, diskVars, convRet, revertList, rIdx, revertRet,
                   setupVars>>

\* convertModulesToLocal: converter.ConvertToLocal(ctx, modulePath,
\* moduleInfo) is called, ctx being runModuleTests' context.Background().
ConvertCall ==
    /\ mpc = "setup"
    /\ sIdx \in Modules
    /\ cpc = "idle"
    /\ ~IsException(sIdx)
    /\ cDir' = Glob(sIdx)
    /\ cIdx' = 1
    /\ filesToRestore' = <<>>
    /\ ctxDone' = FALSE
    /\ cpc' = "convert"
    /\ UNCHANGED <<sideVars, runVars, diskVars, convRet, revertList, rIdx, revertRet,
                   setupVars>>

\* Variant of convertModulesToLocal that fails the test on an error.
ConvertCollectFatal ==
    /\ mpc = "setup"
    /\ cpc = "converted"
    /\ IF convRet.err # "nil"
       THEN /\ mpc' = "fatal"
            /\ UNCHANGED <<allFilesToRestore, warnings>>
       ELSE /\ allFilesToRestore' = allFilesToRestore \o convRet.files
            /\ UNCHANGED <<mpc, warnings>>
    /\ sIdx' = sIdx + 1
    /\ cpc' = "idle"
    /\ UNCHANGED <<sideVars, cfgVars, idx, spc, modVars, tFailed, histVars, trVars,
                   summaries, diskVars, ctxDone, cDir, cIdx, filesToRestore,
                   convRet, revertList, rIdx, revertRet, revertPending>>

\* convertModulesToLocal: ConvertToLocal has returned.  An error is logged
\* as a warning and the loop continues; otherwise the entries are appended.
ConvertCollect ==
    /\ mpc = "setup"
    /\ cpc = "converted"
    /\ IF convRet.err # "nil"
       THEN /\ warnings' = warnings \cup {<<"convert", sIdx>>}
            /\ UNCHANGED allFilesToRestore
       ELSE /\ allFilesToRestore' = allFilesToRestore \o convRet.files
            /\ UNCHANGED warnings
    /\ sIdx' = sIdx + 1
    /\ cpc' = "idle"
    /\ UNCHANGED <<sideVars, runVars, diskVars, ctxDone, cDir, cIdx, filesToRestore,
                   convRet, revertList, rIdx, revertRet, revertPending>>

\* Variant of the setup function that returns, and registers the reversal,
\* while directories are still to be converted.
LocalSetupEndEarly ==
    /\ mpc = "setup"
    /\ sIdx \in 1..(NumModules + 1)
    /\ cpc = "idle"
    /\ revertPending' = TRUE
    /\ mpc' = "loop"
    /\ UNCHANGED <<sideVars, cfgVars, idx, spc, modVars, tFailed, histVars, trVars,
                   summaries, diskVars, callVars, sIdx, allFilesToRestore,
                   warnings>>

\* The setup registers the reversal with t.Cleanup and returns nil.
LocalSetupEnd ==
    /\ mpc = "setup"
    /\ sIdx = NumModules + 1
    /\ cpc = "idle"
    /\ revertPending' = TRUE
    /\ mpc' = "loop"
    /\ UNCHANGED <<sideVars, cfgVars, idx, spc, modVars, tFailed, histVars, trVars,
                   summaries, diskVars, callVars, sIdx, allFilesToRestore,
                   warnings>>

\* Variant in which the reversal is deferred by runModuleTests instead of
\* being a cleanup of the test: it starts when runModuleTests returns.
RevertCleanupDeferred ==
    /\ mpc \in {"returned", "done"}
    /\ revertPending
    /\ revertPending' = FALSE
    /\ revertList' = allFilesToRestore
    /\ rIdx' = 1
    /\ ctxDone' = FALSE
    /\ cpc' = "revert"
    /\ UNCHANGED <<sideVars, runVars, diskVars, cDir, cIdx, filesToRestore, convRet,
                   revertRet, sIdx, allFilesToRestore, warnings>>

\* The reversal cleanup starts, after the summary's:
\* converter.RevertToRegistry(context.Background(), allFilesToRestore).
RevertCleanup ==
    /\ mpc = "done"
    /\ revertPending
    /\ revertPending' = FALSE
    /\ revertList' = allFilesToRestore
    /\ rIdx' = 1
    /\ ctxDone' = FALSE
    /\ cpc' = "revert"
    /\ UNCHANGED <<sideVars, runVars, diskVars, cDir, cIdx, filesToRestore, convRet,
                   revertRet, sIdx, allFilesToRestore, warnings>>

\* Variant of the reversal cleanup that fails the test on an error.
RevertLoggedFatal ==
    /\ mpc = "done"
    /\ cpc = "reverted"
    /\ mpc' = IF revertRet # "nil" THEN "fatal" ELSE mpc
    /\ cpc' = "cleaned"
    /\ UNCHANGED <<sideVars, cfgVars, idx, spc, modVars, tFailed, histVars, trVars,
                   summaries, diskVars, ctxDone, cDir, cIdx, filesToRestore,
                   convRet, revertList, rIdx, revertRet, setupVars>>

\* The reversal cleanup ends: an error of RevertToRegistry is logged as a
\* warning (t.Logf).
RevertLogged ==
    /\ mpc = "done"
    /\ cpc = "reverted"
    /\ warnings' = IF revertRet # "nil" THEN warnings \cup {<<"revert", 0>>}
                   ELSE warnings
    /\ cpc' = "cleaned"
    /\ UNCHANGED <<sideVars, runVars, diskVars, ctxDone, cDir, cIdx, filesToRestore,
                   convRet, revertList, rIdx, revertRet, sIdx,
                   allFilesToRestore, revertPending>>

LocalInit ==
    /\ ConfigInit
    /\ RunnerInit
    /\ disk \in [Files -> LocalContents]
    /\ ConverterIdle
    /\ dirOf = Spread
    /\ convCalls = 0
    /\ RunIdle
    /\ RegistryIdle
    /\ CleanupIdle

LocalSetup ==
    \/ LocalSetupBegin
    \/ ConvertSkip
    \/ ConvertCall
    \/ ConvertFile
    \/ ConvertReturn
    \/ ConvertCollect
    \/ LocalSetupEnd

LocalCleanup ==
    \/ RevertCleanup
    \/ RevertFile
    \/ RevertReturn
    \/ RevertLogged

LocalNext ==
    \/ LocalSetup
    \/ LoopSkip
    \/ LoopRun
    \/ LoopResume
    \/ Return
    \/ Summary
    \/ \E m \in Modules : Subtest(m)
    \/ LocalCleanup

LocalSpec == LocalInit /\ [][LocalNext]_vars

----------------------------------------------------------------------------
\* The registry client on its own: one request against any answer.
GetLatestVersionCall ==
    /\ regRet = NoVersion
    /\ regRet' = GetLatestVersion(resp)
    /\ UNCHANGED <<runVars, convVars, chanVars, dirOf, convCalls, resp, cleanVars>>

RegistryInit ==
    /\ skipDestroy = FALSE
    /\ parallel = FALSE
    /\ exceptionList = {}
    /\ RunnerInit
    /\ disk = [f \in Files |-> CanonFile]
    /\ ConverterIdle
    /\ dirOf = Spread
    /\ convCalls = 0
    /\ RunIdle
    /\ resp \in Responses
    /\ regRet = NoVersion
    /\ CleanupIdle

RegistryNext == GetLatestVersionCall

RegistrySpec == RegistryInit /\ [][RegistryNext]_vars

----------------------------------------------------------------------------
\* Module.Cleanup(ctx, t) on one module directory.  The caller enters it
\* with the directory as it is; the context may be cancelled at any moment.
CleanupCall ==
    /\ kpc = "idle"
    /\ kpc' = "check"
    /\ kIdx' = 1
    /\ UNCHANGED <<runVars, convVars, chanVars, dirOf, convCalls, regVars, created, present, kDone,
                   kMatches, kRet>>

CleanupCancel ==
    /\ ~kDone
    /\ kpc \in {"check", "glob", "remove"}
    /\ kDone' = TRUE
    /\ UNCHANGED <<runVars, convVars, chanVars, dirOf, convCalls, regVars, created, present, kpc,
                   kIdx, kMatches, kRet>>

\* A variant of the check that looks at the context before the first
\* pattern only.
CleanupCheckOnce ==
    /\ kpc = "check"
    /\ IF kIdx > Len(filesToCleanup)
       THEN /\ kpc' = "done"
            /\ kRet' = "nil"
       ELSE IF kDone /\ kIdx = 1
            THEN /\ kpc' = "done"
                 /\ kRet' = "cancelled"
            ELSE /\ kpc' = "glob"
                 /\ UNCHANGED kRet
    /\ UNCHANGED <<runVars, convVars, chanVars, dirOf, convCalls, regVars, created, present, kDone,
                   kIdx, kMatches>>

\* Head of the loop over filesToCleanup: the loop ends with nil after the
\* last pattern; before each pattern the context is looked at and, when it
\* is cancelled, Cleanup returns its error at once.
CleanupCheck ==
    /\ kpc = "check"
    /\ IF kIdx > Len(filesToCleanup)
       THEN /\ kpc' = "done"
            /\ kRet' = "nil"
       ELSE IF kDone
            THEN /\ kpc' = "done"
                 /\ kRet' = "cancelled"
            ELSE /\ kpc' = "glob"
                 /\ UNCHANGED kRet
    /\ UNCHANGED <<runVars, convVars, chanVars, dirOf, convCalls, regVars, created, present, kDone,
                   kIdx, kMatches>>

\* filepath.Glob(filepath.Join(m.Path, pattern)).  The three patterns are
\* well formed, so Glob does not fail.
CleanupGlob ==
    /\ kpc = "glob"
    /\ kMatches' = GlobMatches(filesToCleanup[kIdx], present)
    /\ kpc' = "remove"
    /\ UNCHANGED <<runVars, convVars, chanVars, dirOf, convCalls, regVars, created, present, kDone,
                   kIdx, kRet>>

\* The loop over the matches: os.RemoveAll removes the entry or fails, and
\* a failure is returned; after the last match the next pattern is taken.
CleanupRemove ==
    /\ kpc = "remove"
    /\ IF kMatches = <<>>
       THEN /\ kIdx' = kIdx + 1
            /\ kpc' = "check"
            /\ UNCHANGED <<present, kMatches, kRet>>
       ELSE \E removed \in BOOLEAN :
                IF removed
                THEN /\ present' = present \ {Head(kMatches)}
                     /\ kMatches' = Tail(kMatches)
                     /\ UNCHANGED <<kpc, kIdx, kRet>>
                ELSE /\ kpc' = "done"
                     /\ kRet' = "remove"
                     /\ UNCHANGED <<present, kIdx, kMatches>>
    /\ UNCHANGED <<runVars, convVars, chanVars, dirOf, convCalls, regVars, created, kDone>>

CleanupInit ==
    /\ skipDestroy = FALSE
    /\ parallel = FALSE
    /\ exceptionList = {}
    /\ RunnerInit
    /\ disk = [f \in Files |-> CanonFile]
    /\ ConverterIdle
    /\ dirOf = Spread
    /\ convCalls = 0
    /\ RunIdle
    /\ RegistryIdle
    /\ created \in SUBSET Artifacts
    /\ present = created
    /\ kDone = FALSE
    /\ kpc = "idle"
    /\ kIdx = 1
    /\ kMatches = <<>>
    /\ kRet = "none"

CleanupNext ==
    \/ CleanupCall
    \/ CleanupCancel
    \/ CleanupCheck
    \/ CleanupGlob
    \/ CleanupRemove

CleanupSpec == CleanupInit /\ [][CleanupNext]_vars

\* A run with local-source setup in which all the files lie in the directory
\* of the first module.
PackedInit ==
    /\ ConfigInit
    /\ RunnerInit
    /\ disk \in [Files -> LocalContents]
    /\ ConverterIdle
    /\ dirOf = Packed
    /\ convCalls = 0
    /\ RunIdle
    /\ RegistryIdle
    /\ CleanupIdle

PackedSpec == PackedInit /\ [][LocalNext]_vars

----------------------------------------------------------------------------
\* Run, the channel-based runner, called by a test function with its t.

\* The test function calls Run(t, ...).
RunCall ==
    /\ tpc = "idle"
    /\ tpc' = "inRun"
    /\ rpc' = "options"
    /\ UNCHANGED <<runVars, convVars, dirOf, convCalls, regVars, cleanVars,
                   runOpts, discovered, rmods, rLoop, wpc, resultChan, results,
                   runErr>>

\* Run, up to the module list: an example named in the exceptions returns
\* no result and nil; an example gives one module; otherwise
\* discoverModules gives the directories it finds, or its error is returned.
RunDiscover ==
    /\ rpc = "options"
    /\ IF runOpts.example = "excepted"
       THEN /\ runErr' = "nil"
            /\ rpc' = "returned"
            /\ UNCHANGED rmods
       ELSE \E discoverErr \in BOOLEAN :
                IF runOpts.example = "none" /\ discoverErr
                THEN /\ runErr' = "discover"
                     /\ rpc' = "returned"
                     /\ UNCHANGED rmods
                ELSE /\ rmods' = IF runOpts.example = "one" THEN 1 ELSE discovered
                     /\ rpc' = IF runOpts.useLocalSrc THEN "convert" ELSE "loop"
                     /\ UNCHANGED runErr
    /\ rLoop' = 1
    /\ UNCHANGED <<runVars, convVars, dirOf, convCalls, regVars, cleanVars,
                   runOpts, discovered, tpc, wpc, resultChan, results>>

\* Run, the loop over convertToLocal(mod.Path): an error is returned.
RunConvert ==
    /\ rpc = "convert"
    /\ IF rLoop > rmods
       THEN /\ rpc' = "loop"
            /\ rLoop' = 1
            /\ UNCHANGED runErr
       ELSE \E convertErr \in BOOLEAN :
                IF convertErr
                THEN /\ runErr' = "convert"
                     /\ rpc' = "returned"
                     /\ UNCHANGED rLoop
                ELSE /\ rLoop' = rLoop + 1
                     /\ UNCHANGED <<rpc, runErr>>
    /\ UNCHANGED <<runVars, convVars, dirOf, convCalls, regVars, cleanVars,
                   runOpts, discovered, tpc, rmods, wpc, resultChan, results>>

\* Run, the loop over t.Run(mod.Name, ...): the subtest is started and
\* t.Run waits for it to complete or to call t.Parallel.
RunLoop ==
    /\ rpc = "loop"
    /\ IF rLoop > rmods
       THEN /\ rpc' = "collect"
            /\ UNCHANGED wpc
       ELSE /\ wpc' = [wpc EXCEPT ![rLoop] = "start"]
            /\ rpc' = "wait"
    /\ UNCHANGED <<runVars, convVars, dirOf, convCalls, regVars, cleanVars,
                   runOpts, discovered, tpc, rmods, rLoop, resultChan, results,
                   runErr>>

\* t.Run returns.
RunResume ==
    /\ rpc = "wait"
    /\ wpc[rLoop] \in {"paused", "done"}
    /\ rLoop' = rLoop + 1
    /\ rpc' = "loop"
    /\ UNCHANGED <<runVars, convVars, dirOf, convCalls, regVars, cleanVars,
                   runOpts, discovered, tpc, rmods, wpc, resultChan, results,
                   runErr>>

\* Run, the collection: len(modules) receives from resultChan, each of
\* which waits for a value, then "return results, nil".
RunCollect ==
    /\ rpc = "collect"
    /\ IF Len(results) = rmods
       THEN /\ runErr' = "nil"
            /\ rpc' = "returned"
            /\ UNCHANGED <<resultChan, results>>
       ELSE /\ resultChan # <<>>
            /\ results' = Append(results, Head(resultChan))
            /\ resultChan' = Tail(resultChan)
            /\ UNCHANGED <<rpc, runErr>>
    /\ UNCHANGED <<runVars, convVars, dirOf, convCalls, regVars, cleanVars,
                   runOpts, discovered, tpc, rmods, rLoop, wpc>>

\* Run has returned and the test function that called it returns; only
\* then does testing release the subtests waiting in t.Parallel.
CallerReturn ==
    /\ tpc = "inRun"
    /\ rpc = "returned"
    /\ tpc' = "returned"
    /\ UNCHANGED <<runVars, convVars, dirOf, convCalls, regVars, cleanVars,
                   runOpts, discovered, rpc, rmods, rLoop, wpc, resultChan, results,
                   runErr>>

\* The subtest closure of module m: t.Parallel() parks it until the test
\* function of its parent has returned; then Apply, Destroy unless
\* skipped, and the send of the TestResult on resultChan, whose buffer has
\* room for every module.
RunSubtest(m) ==
    /\ IF wpc[m] = "start"
       THEN /\ wpc' = [wpc EXCEPT ![m] = "paused"]
            /\ UNCHANGED resultChan
       ELSE IF wpc[m] = "paused"
       THEN /\ tpc = "returned"
            /\ wpc' = [wpc EXCEPT ![m] = "running"]
            /\ UNCHANGED resultChan
       ELSE /\ wpc[m] = "running"
            /\ \E applyErr \in BOOLEAN, destroyErr \in BOOLEAN :
                   resultChan' =
                       Append(resultChan,
                              [ModuleName |-> m,
                               Success |-> /\ ~applyErr
                                           /\ runOpts.skipDestroy \/ ~destroyErr])
            /\ wpc' = [wpc EXCEPT ![m] = "done"]
    /\ UNCHANGED <<runVars, convVars, dirOf, convCalls, regVars, cleanVars,
                   runOpts, discovered, tpc, rpc, rmods, rLoop, results, runErr>>

RunInit ==
    /\ skipDestroy = FALSE
    /\ parallel = FALSE
    /\ exceptionList = {}
    /\ RunnerInit
    /\ disk = [f \in Files |-> CanonFile]
    /\ ConverterIdle
    /\ dirOf = Spread
    /\ convCalls = 0
    /\ RegistryIdle
    /\ CleanupIdle
    /\ runOpts \in RunOptions
    /\ discovered \in 0..NumModules
    /\ tpc = "idle"
    /\ rpc = "idle"
    /\ rmods = 0
    /\ rLoop = 1
    /\ wpc = [m \in Modules |-> "idle"]
    /\ resultChan = <<>>
    /\ results = <<>>
    /\ runErr = "none"

RunNext ==
    \/ RunCall
    \/ RunDiscover
    \/ RunConvert
    \/ RunLoop
    \/ RunResume
    \/ RunCollect
    \/ CallerReturn
    \/ \E m \in Modules : RunSubtest(m)

RunSpec == RunInit /\ [][RunNext]_vars

\* Every step that can be taken is eventually taken.
FairRunSpec == RunSpec /\ WF_vars(RunNext)

----------------------------------------------------------------------------
\* Helpers for the properties.
Occurrences(seq, x) == Len(SelectSeq(seq, LAMBDA e : e = x))
Range(seq) == {seq[k] : k \in 1..Len(seq)}
Included == Modules \ exceptionList

\* C1: a module whose Apply failed has, once Destroy (teardown and cleanup)
\* has returned, ApplyFailed = TRUE and exactly one entry in Errors, the
\* apply failure, whatever the outcomes of teardown and cleanup.
C1_ApplyFailureReportedAlone ==
    \A m \in Modules :
        (applyRet[m] = "err" /\ destroyRet[m] # "none")
            => (ApplyFailed[m] /\ Errors[m] = <<ApplyMsg>>)

C1_Witness ==
    \E m \in Modules :
        /\ applyRet[m] = "err"
        /\ teardown[m] = "fail"
        /\ cleanup[m] = "fail"
        /\ spc[m] = "done"

\* C2: a module whose Apply succeeded and whose teardown step failed has,
\* after Destroy, ApplyFailed = FALSE and exactly one "Destroy failed" entry
\* in Errors: it is the first entry, followed by nothing but a "Cleanup
\* failed" entry when the cleanup step failed as well.
C2_DestroyFailureReportedOnce ==
    \A m \in Modules :
        (applyRet[m] = "nil" /\ teardown[m] = "fail")
            => /\ ~ApplyFailed[m]
               /\ Occurrences(Errors[m], DestroyMsg) = 1
               /\ Errors[m] = IF cleanup[m] = "fail"
                              THEN <<DestroyMsg, CleanupMsg>>
                              ELSE <<DestroyMsg>>

C2_Witness ==
    \E m \in Modules :
        /\ applyRet[m] = "nil"
        /\ teardown[m] = "fail"
        /\ spc[m] = "done"

\* C3: a module whose Apply succeeded and whose Destroy succeeded (teardown
\* step and cleanup step both without error) has empty Errors after the run.
C3_SuccessLeavesNoErrors ==
    \A m \in Modules :
        (applyRet[m] = "nil" /\ teardown[m] = "ok" /\ cleanup[m] = "ok")
            => Errors[m] = <<>>

C3_Witness ==
    /\ mpc = "done"
    /\ \E m \in Modules :
        /\ applyRet[m] = "nil"
        /\ teardown[m] = "ok"
        /\ cleanup[m] = "ok"
        /\ spc[m] = "done"

\* C4: without skip-teardown, Destroy is invoked at most once per module and
\* only after Apply has returned, and every module whose Apply was started
\* eventually has had its Destroy (teardown, then cleanup) run exactly once,
\* whether Apply succeeded or failed.
C4_DestroyFollowsApply ==
    \A m \in Modules :
        /\ [](/\ destroyCalls[m] <= 1
              /\ (destroyCalls[m] = 1 => applyRet[m] # "none"))
        /\ []((~skipDestroy /\ applyCalls[m] > 0)
                => <>(/\ destroyCalls[m] = 1
                      /\ teardown[m] # "none"
                      /\ cleanup[m] # "none"))

C4_Witness ==
    \E m \in Modules :
        /\ ~skipDestroy
        /\ applyRet[m] = "err"
        /\ destroyCalls[m] = 1
        /\ destroyRet[m] # "none"

\* C5: with the skip-teardown flag set no Destroy, teardown or cleanup ever
\* happens, whatever Apply returned; with the flag not set every module that
\* is past its Apply has had Destroy invoked (once).
C5_SkipDestroyOmitsDestroy ==
    \A m \in Modules :
        /\ skipDestroy
             => /\ destroyCalls[m] = 0
                /\ destroyRet[m] = "none"
                /\ teardown[m] = "none"
                /\ cleanup[m] = "none"
        /\ (~skipDestroy /\ spc[m] \in {"add", "adding", "done"})
             => /\ destroyCalls[m] = 1
                /\ teardown[m] # "none"
                /\ cleanup[m] # "none"

C5_Witness ==
    /\ skipDestroy
    /\ mpc = "done"
    /\ \E m \in Modules : applyRet[m] = "err" /\ spc[m] = "done"

\* C6: a module named in the exception list is never applied, never
\* destroyed and never added to the aggregator, while at the end of the run
\* every other module has been applied and added.
C6_ExceptionsNeverRun ==
    /\ \A m \in exceptionList :
        /\ spc[m] = "idle"
        /\ applyCalls[m] = 0
        /\ destroyCalls[m] = 0
        /\ m \notin Range(trModules)
        /\ m \notin Range(trFailed)
    /\ mpc = "done"
         => \A m \in Included :
              /\ applyCalls[m] = 1
              /\ spc[m] = "done"
              /\ m \in Range(trModules)

C6_Witness ==
    /\ mpc = "done"
    /\ exceptionList # {}
    /\ Included # {}

\* C7: a module's Apply error or Destroy error marks that module's own
\* subtest failed.
C7_FailureMarksSubtest ==
    \A m \in Modules :
        (spc[m] = "done" /\ (applyRet[m] = "err" \/ destroyRet[m] = "err"))
            => tFailed[m]

\* C8: whatever Apply and Destroy return for any module, every subtest that
\* was started runs its lifecycle to the end and is added to the
\* aggregator, and the run ends with the summary emitted and every
\* non-excluded module in the aggregator.
C8_FailuresAreContained ==
    /\ \A m \in Modules :
         [](spc[m] = "start" => <>(spc[m] = "done" /\ m \in Range(trModules)))
    /\ [](mpc = "loop"
            => <>(/\ mpc = "done"
                  /\ Len(summaries) = 1
                  /\ \A m \in Included :
                       spc[m] = "done" /\ m \in Range(trModules)))

C8_Witness ==
    /\ mpc = "done"
    /\ \E m1 \in Modules, m2 \in Modules :
        /\ applyRet[m1] = "err"
        /\ destroyRet[m1] = "err"
        /\ applyRet[m2] = "nil"
        /\ destroyRet[m2] = "nil"
        /\ trModules = <<m1, m2>>

\* C9: the summary is emitted at most once and, once the module loop has
\* been entered, eventually once; when it has been emitted every subtest has
\* finished, the aggregator holds every non-excluded module exactly once and
\* nothing else, and the summary is the one computed from the aggregator.
C9_SummaryOnceFromAggregator ==
    /\ [](Len(summaries) <= 1)
    /\ [](Len(summaries) = 1
            => /\ \A m \in Included : spc[m] = "done"
               /\ \A m \in exceptionList : spc[m] = "idle"
               /\ \A m \in Included : Occurrences(trModules, m) = 1
               /\ Range(trModules) = Included
               /\ summaries[1] = PrintModuleSummary(GetResults[1])
               /\ summaries[1].total = Cardinality(Included))
    /\ [](mpc = "loop" => <>(Len(summaries) = 1))

C9_Witness ==
    /\ Len(summaries) = 1
    /\ parallel
    /\ exceptionList # {}
    /\ Included # {}
    /\ summaries[1].count = 1

\* C10: whenever no AddModule call is in progress, GetResults returns
\* exactly the modules whose AddModule has completed (N of them, each once)
\* and, as failed, exactly those of them with non-empty Errors (K of them),
\* in whatever order the concurrent calls were interleaved.
C10_AggregatorCountsEveryAdd ==
    LET Added == {m \in Modules : spc[m] = "done"}
        Failing == {m \in Added : Len(Errors[m]) > 0}
    IN  mu = 0
          => /\ Len(GetResults[1]) = Cardinality(Added)
             /\ Range(GetResults[1]) = Added
             /\ Len(GetResults[2]) = Cardinality(Failing)
             /\ Range(GetResults[2]) = Failing

C10_Witness ==
    /\ parallel
    /\ \A m \in Modules : spc[m] = "done"
    /\ trModules[1] # 1
    /\ \E m \in Modules : Len(Errors[m]) > 0
    /\ \E m \in Modules : Len(Errors[m]) = 0

----------------------------------------------------------------------------
\* Helpers for the properties of the converter.
Paths(list) == {list[k].Path : k \in 1..Len(list)}
HasAttribute(block, name) == GetAttribute(block.attrs, name) # 0
\* The quoted value of the attribute; <<>> when absent or not a literal.
StringOf(block, name) ==
    LET i == GetAttribute(block.attrs, name) IN
    IF i # 0 /\ block.attrs[i].value.lit THEN block.attrs[i].value.str ELSE <<>>
\* The blocks of a body in document order, nested ones after their parent.
RECURSIVE Flatten(_)
Flatten(body) ==
    IF body = <<>> THEN <<>>
    ELSE <<Head(body)>> \o Flatten(Head(body).body) \o Flatten(Tail(body))
BlocksOf(content) == Flatten(content.body)
\* ConvertToLocal has rewritten f and RevertToRegistry has not begun.
Converted(f) ==
    /\ cpc \in {"convert", "converted"}
    /\ f \in Paths(filesToRestore)
\* One module block, with the canonical source and a version attribute.
OneCanonicalBlock(content) ==
    /\ content.kind = "hcl"
    /\ Len(BlocksOf(content)) = 1
    /\ content.body[1].type = "module"
    /\ StringOf(content.body[1], "source") = <<"ns", "name", "provider">>
    /\ HasAttribute(content.body[1], "version")

\* C11: round trip of a file with one module block whose source is
\* ns/name/provider and which has a version: once ConvertToLocal has
\* rewritten it the source is "../../" and there is no version attribute;
\* once RevertToRegistry has written it after a lookup that returned
\* "2.0.0" the version reads "~> 2.0.0" and the source is ns/name/provider.
C11_RoundTrip ==
    \A f \in Files :
      OneCanonicalBlock(orig[f]) =>
        /\ Converted(f) =>
             /\ disk[f].kind = "hcl"
             /\ StringOf(disk[f].body[1], "source") = <<"..", "..", "">>
             /\ ~HasAttribute(disk[f].body[1], "version")
        /\ (f \in Range(revWrites) /\ lookup[f] = "2.0.0") =>
             /\ disk[f].kind = "hcl"
             /\ StringOf(disk[f].body[1], "source") = <<"ns", "name", "provider">>
             /\ StringOf(disk[f].body[1], "version") = <<"~>", "2.0.0">>

C11_Witness ==
    \E f \in Files :
      /\ OneCanonicalBlock(orig[f])
      /\ f \in Range(revWrites)
      /\ lookup[f] = "2.0.0"
      /\ cpc = "reverted"
      /\ revertRet = "nil"

\* C12: a failed registry lookup makes RevertToRegistry write the entry's
\* original content back verbatim and is no error of its own: the file
\* then equals its content from before the conversion (unless that very
\* write failed), a reversal that was neither cancelled nor hit a write
\* failure returns nil, and after ConvertToLocal followed by a reversal
\* whose lookups all failed every converted file is as it was.
C12_FailedLookupRestoresVerbatim ==
    /\ \A f \in Files :
         lookup[f] = "err" =>
           \/ f \in Range(revWrites) /\ disk[f] = orig[f]
           \/ /\ cpc = "reverted"
              /\ revertRet = "write"
              /\ revertList[rIdx].Path = f
    /\ (cpc = "reverted" /\ ~ctxDone /\ revertRet # "write") => revertRet = "nil"
    /\ ( /\ cpc = "reverted"
         /\ revertRet = "nil"
         /\ \A f \in Paths(revertList) : lookup[f] = "err" )
       => \A f \in Paths(convRet.files) : disk[f] = orig[f]

C12_Witness ==
    /\ cpc = "reverted"
    /\ revertRet = "nil"
    /\ Len(revertList) = NumFiles
    /\ \A f \in Files : lookup[f] = "err" /\ disk[f] = orig[f]

\* The module blocks of f's original content that satisfy a predicate, as
\* positions in document order (the rewrite keeps every block in place).
Positions(f) == 1..Len(BlocksOf(orig[f]))
RewriteOf(b) ==
    updateModuleBlock(b, <<"ns", "name", "provider">>,
                      <<"ns", "name", "provider", "", "modules">>)
IsCanonicalBlock(b) ==
    b.type = "module" /\ StringOf(b, "source") = <<"ns", "name", "provider">>
IsSubmoduleBlock(b) ==
    LET src == StringOf(b, "source") IN
    /\ b.type = "module"
    /\ Len(src) >= 6
    /\ SubSeq(src, 1, 5) = <<"ns", "name", "provider", "", "modules">>

\* C13: updateModuleBlock on a module block whose literal source is exactly
\* ns/name/provider reports a change and yields the block with source
\* "../../" and without a version attribute; a file ConvertToLocal has
\* rewritten shows every such block in that form.
C13_CanonicalBlockGoesLocalRoot ==
    \A f \in Files :
      orig[f].kind = "hcl" =>
        \A k \in Positions(f) :
          LET b == BlocksOf(orig[f])[k] IN
          IsCanonicalBlock(b) =>
            /\ RewriteOf(b).changed
            /\ StringOf(RewriteOf(b).block, "source") = <<"..", "..", "">>
            /\ ~HasAttribute(RewriteOf(b).block, "version")
            /\ Converted(f) =>
                 /\ StringOf(BlocksOf(disk[f])[k], "source") = <<"..", "..", "">>
                 /\ ~HasAttribute(BlocksOf(disk[f])[k], "version")

C13_Witness ==
    \E f \in Files :
      /\ Converted(f)
      /\ \E k \in Positions(f) :
           /\ IsCanonicalBlock(BlocksOf(orig[f])[k])
           /\ HasAttribute(BlocksOf(orig[f])[k], "version")
           /\ ~HasAttribute(BlocksOf(disk[f])[k], "version")

\* C14: a module block whose source is ns/name/provider//modules/<segment>
\* is rewritten to "../../modules/<segment>", the segment without one
\* leading separator, and loses its version attribute; in particular
\* ns/name/provider//modules/net becomes ../../modules/net.
C14_SubmoduleGoesLocalModules ==
    \A f \in Files :
      orig[f].kind = "hcl" =>
        \A k \in Positions(f) :
          LET b == BlocksOf(orig[f])[k]
              segment == SubSeq(StringOf(b, "source"), 6, Len(StringOf(b, "source")))
              stripped == IF Len(segment) > 1 /\ segment[1] = ""
                          THEN SubSeq(segment, 2, Len(segment)) ELSE segment
          IN  IsSubmoduleBlock(b) =>
                /\ RewriteOf(b).changed
                /\ StringOf(RewriteOf(b).block, "source")
                     = <<"..", "..", "modules">> \o stripped
                /\ ~HasAttribute(RewriteOf(b).block, "version")
                /\ StringOf(b, "source") = <<"ns", "name", "provider", "", "modules", "net">>
                     => StringOf(RewriteOf(b).block, "source")
                          = <<"..", "..", "modules", "net">>
                /\ Converted(f) =>
                     /\ StringOf(BlocksOf(disk[f])[k], "source")
                          = <<"..", "..", "modules">> \o stripped
                     /\ ~HasAttribute(BlocksOf(disk[f])[k], "version")

C14_Witness ==
    \E f \in Files :
      /\ Converted(f)
      /\ orig[f].body[1].type = "module"
      /\ StringOf(orig[f].body[1], "source")
           = <<"ns", "name", "provider", "", "modules", "net">>
      /\ HasAttribute(orig[f].body[1], "version")
      /\ StringOf(disk[f].body[1], "source") = <<"..", "..", "modules", "net">>

\* C15: a block that is neither a module block with the canonical source
\* nor one with a submodule source (an unrelated module, an already-local
\* path) is returned unchanged and unreported by updateModuleBlock and is
\* the same on disk after the conversion, version included; a file none of
\* whose blocks is rewritten is never written: it has no restore entry and
\* its content stays what it was.
C15_OtherSourcesUntouched ==
    \A f \in Files :
      orig[f].kind = "hcl" =>
        /\ \A k \in Positions(f) :
             LET b == BlocksOf(orig[f])[k] IN
             (~IsCanonicalBlock(b) /\ ~IsSubmoduleBlock(b)) =>
               /\ b.type = "module" =>
                    (~RewriteOf(b).changed /\ RewriteOf(b).block = b)
               /\ Converted(f) =>
                    /\ BlocksOf(disk[f])[k].attrs = b.attrs
                    /\ BlocksOf(disk[f])[k].type = b.type
        /\ ( /\ cpc \in {"convert", "converted"}
             /\ \A k \in Positions(f) :
                  /\ ~IsCanonicalBlock(BlocksOf(orig[f])[k])
                  /\ ~IsSubmoduleBlock(BlocksOf(orig[f])[k]) )
           => (disk[f] = orig[f] /\ f \notin Paths(filesToRestore))

C15_Witness ==
    /\ cpc = "converted"
    /\ convRet.err = "nil"
    /\ \E f \in Files :
         /\ orig[f].kind = "hcl"
         /\ StringOf(orig[f].body[1], "source") = <<"other", "thing", "provider">>
         /\ HasAttribute(disk[f].body[1], "version")
         /\ disk[f] = orig[f]
    /\ \E f \in Files :
         /\ Converted(f)
         /\ \E k \in Positions(f) :
              /\ StringOf(BlocksOf(orig[f])[k], "source") = <<"other", "thing", "provider">>
              /\ BlocksOf(disk[f])[k] = BlocksOf(orig[f])[k]

\* C16: after a ConvertToLocal call that returned the cancellation error,
\* every file is either untouched or fully converted with its FileRestore
\* among the returned entries, and none holds partial content.
C16_CancelledConversionIsRecorded ==
    (cpc = "converted" /\ convRet.err = "cancelled") =>
      \A f \in Files :
        \/ disk[f] = orig[f]
        \/ /\ f \in Paths(convRet.files)
           /\ disk[f] = Hcl(updateModuleBlocks(orig[f].body, <<"ns", "name", "provider">>,
                              <<"ns", "name", "provider", "", "modules">>).body)

\* C17: when ConvertToLocal returns the cancellation error it returns with
\* it the FileRestore entries recorded so far, one for each file it has
\* rewritten, and the rewritten files stay rewritten.
C17_CancellationReturnsRecorded ==
    (cpc = "converted" /\ convRet.err = "cancelled") =>
      /\ convRet.files = filesToRestore
      /\ \A f \in Paths(filesToRestore) : disk[f] # orig[f]

\* The content RevertToRegistry writes for an entry, given the lookup.
Restored(f) ==
    IF lookup[f] = "err" THEN orig[f]
    ELSE updateVersionInContent(orig[f], lookup[f])

\* C19: RevertToRegistry looks at the context before each entry: a step
\* taken with the context cancelled writes no file and returns the
\* cancellation error; when it has returned that error the entries before
\* the point of cancellation are restored and none after it was written.
C19_RevertStopsOnCancellation ==
    /\ [](revertRet = "cancelled" =>
            /\ cpc = "reverted"
            /\ \A k \in 1..Len(revertList) :
                 LET f == revertList[k].Path IN
                 IF k < rIdx
                 THEN f \in Range(revWrites) /\ disk[f] = Restored(f)
                 ELSE f \notin Range(revWrites) /\ lookup[f] = "none")
    /\ [][(cpc = "revert" /\ ctxDone) =>
            /\ disk' = disk
            /\ revWrites' = revWrites
            /\ revertRet' = IF rIdx <= Len(revertList) THEN "cancelled" ELSE "nil"]_vars

C19_Witness ==
    /\ revertRet = "cancelled"
    /\ rIdx > 1
    /\ rIdx <= Len(revertList)
    /\ disk[revertList[1].Path] = Restored(revertList[1].Path)
    /\ disk[revertList[rIdx].Path] # orig[revertList[rIdx].Path]

\* A ConvertToLocal call of the local-source setup has returned an error.
ConversionFailed ==
    \/ warnings \cap {<<"convert", m>> : m \in Modules} # {}
    \/ mpc = "setup" /\ cpc = "converted" /\ convRet.err # "nil"

\* C18: once a conversion of the local-source setup has returned an error
\* the setup phase ends in a fatal setup failure, and Apply is invoked for
\* no module of that run.
C18_ConversionErrorIsFatal ==
    ConversionFailed =>
      /\ mpc \in {"setup", "fatal"}
      /\ \A m \in Modules : applyCalls[m] = 0

\* The run is marked failed: the parent test failed fatally or a subtest
\* failed (a failing subtest fails its parent).
RunFailed == mpc = "fatal" \/ \E m \in Modules : tFailed[m]

\* C20: a failed reversal is a logged warning and nothing more.  No step
\* of the reversal cleanup changes whether the run or a subtest is failed,
\* a module's Errors or ApplyFailed, the aggregator or the summary; a
\* write failure ends the reversal at that entry; and when the cleanup is
\* over an error has left exactly the warning.
C20_RevertFailureOnlyWarns ==
    /\ [][(cpc \in {"revert", "reverted"}) =>
            /\ RunFailed' = RunFailed
            /\ UNCHANGED <<tFailed, Errors, ApplyFailed, trModules, trFailed,
                           summaries>>]_vars
    /\ [](cpc = "cleaned" =>
            /\ (<<"revert", 0>> \in warnings) = (revertRet # "nil")
            /\ revertRet = "write" => Len(revWrites) = rIdx - 1
            /\ mpc = "done")

C20_Witness ==
    /\ cpc = "cleaned"
    /\ revertRet = "write"
    /\ rIdx < Len(revertList)
    /\ <<"revert", 0>> \in warnings
    /\ ~RunFailed
    /\ Len(trModules) = NumModules

----------------------------------------------------------------------------
\* C21: whenever Destroy has returned, both the teardown step and the
\* cleanup step have run, whatever the outcome of teardown and whether or
\* not Apply had failed, and Destroy returned an error exactly when the
\* teardown step failed: also when that error was kept out of Errors, and
\* nil when only cleanup failed.
C21_DestroyAlwaysCleansUp ==
    \A m \in Modules :
      destroyRet[m] # "none" =>
        /\ teardown[m] # "none"
        /\ cleanup[m] # "none"
        /\ (destroyRet[m] = "err") = (teardown[m] = "fail")

C21_Witness ==
    /\ \E m \in Modules :
         /\ ApplyFailed[m]
         /\ teardown[m] = "fail"
         /\ cleanup[m] = "ok"
         /\ destroyRet[m] = "err"
         /\ Errors[m] = <<ApplyMsg>>
    /\ \E m \in Modules :
         /\ teardown[m] = "ok"
         /\ cleanup[m] = "fail"
         /\ destroyRet[m] = "nil"

\* C22: when Destroy has run on a module whose Apply did not fail and both
\* teardown and cleanup failed, Errors holds exactly the two appended
\* entries, the teardown error first and the cleanup error second, and
\* Destroy returned an error; a cleanup error is in Errors only if
\* ApplyFailed is false.
C22_BothFailuresRecordedInOrder ==
    \A m \in Modules :
      /\ ( /\ destroyRet[m] # "none"
           /\ ~ApplyFailed[m]
           /\ teardown[m] = "fail"
           /\ cleanup[m] = "fail" )
         => /\ Errors[m] = <<DestroyMsg, CleanupMsg>>
            /\ destroyRet[m] = "err"
      /\ CleanupMsg \in Range(Errors[m]) => ~ApplyFailed[m]

C22_Witness ==
    /\ \E m \in Modules :
         /\ applyRet[m] = "nil"
         /\ teardown[m] = "fail"
         /\ cleanup[m] = "fail"
         /\ Len(Errors[m]) = 2
    /\ \E m \in Modules :
         /\ ApplyFailed[m]
         /\ cleanup[m] = "fail"
         /\ Len(Errors[m]) = 1

\* C23: the step in which Apply returns an error sets ApplyFailed and
\* appends exactly one entry, the apply failure, to Errors; the step in
\* which it returns nil changes neither.
C23_ApplyRecordsOneError ==
    [][\A m \in Modules :
         applyRet'[m] # applyRet[m] =>
           IF applyRet'[m] = "err"
           THEN /\ ApplyFailed'[m]
                /\ Errors'[m] = Append(Errors[m], "Apply failed")
           ELSE /\ applyRet'[m] = "nil"
                /\ ApplyFailed'[m] = ApplyFailed[m]
                /\ Errors'[m] = Errors[m]]_vars

C23_Witness ==
    /\ \E m \in Modules :
         applyRet[m] = "err" /\ ApplyFailed[m] /\ Errors[m] = <<"Apply failed">>
    /\ \E m \in Modules :
         applyRet[m] = "nil" /\ ~ApplyFailed[m] /\ Errors[m] = <<>>

\* Module m is between the start of its Apply and its insertion into the
\* aggregator.
InLifecycle(m) ==
    spc[m] \in {"applying", "applied", "destroying", "add", "adding"}

\* C25: with parallel = FALSE at most one module is between the start of
\* its Apply and its insertion into the aggregator, a module starts only
\* when every earlier module that runs has been added, and the aggregator
\* holds the modules in input order.
C25_SequentialRunsOneAtATime ==
    ~parallel =>
      /\ Cardinality({m \in Modules : InLifecycle(m)}) <= 1
      /\ \A m \in Modules :
           spc[m] # "idle" =>
             \A k \in 1..(m - 1) : k \in exceptionList \/ spc[k] = "done"
      /\ \A i, j \in 1..Len(trModules) : i < j => trModules[i] < trModules[j]

C25_Witness ==
    /\ ~parallel
    /\ trModules = <<1>>
    /\ InLifecycle(2)

\* C26: the summary logs, for exactly the modules with errors, a header
\* followed by that module's errors in recorded order, and then one count
\* line "N of M modules failed" with N the number of modules that have
\* errors and M the number of modules summarised; with no such module it
\* logs the single success line.
C26_SummaryLines ==
    Len(summaries) = 1 =>
      LET out == summaries[1].lines
          failed == {m \in Range(trModules) : Errors[m] # <<>>}
          Kind(k) == {i \in 1..Len(out) : out[i][1] = k}
      IN  /\ {out[i][2] : i \in Kind("module")} = failed
          /\ Cardinality(Kind("module")) = Cardinality(failed)
          /\ \A i \in Kind("module") :
               LET errs == Errors[out[i][2]] IN
               /\ i + Len(errs) + 1 <= Len(out)
               /\ \A e \in 1..Len(errs) : out[i + e] = <<"error", e, errs[e]>>
               /\ out[i + Len(errs) + 1] = <<"blank">>
          /\ Cardinality(Kind("error"))
               = Cardinality({<<m, e>> \in Modules \X (1..2) :
                                m \in failed /\ e <= Len(Errors[m])})
          /\ IF failed = {}
             THEN out = <<<<"success", Len(trModules)>>>>
             ELSE /\ out[Len(out)] = <<"total", Cardinality(failed), Len(trModules)>>
                  /\ Kind("total") = {Len(out)}
                  /\ Kind("success") = {}

C26_Witness ==
    /\ Len(summaries) = 1
    /\ summaries[1].lines[Len(summaries[1].lines)] = <<"total", 1, NumModules>>
    /\ \E m \in Modules : Len(Errors[m]) = 2

C27_FirstListedVersion ==
    regRet # NoVersion =>
        IF /\ ~resp.reqErr
           /\ ~resp.netErr
           /\ resp.status = StatusOK
           /\ ~resp.readErr
           /\ resp.body.kind = "json"
           /\ Len(resp.body.versions) > 0
        THEN regRet = [version |-> resp.body.versions[1], err |-> "nil"]
        ELSE regRet.version = "" /\ regRet.err \notin {"nil", "none"}

\* The answer [2.0.0, 1.0.0] of the test, for which 2.0.0 was returned.
C27_Witness ==
    /\ resp.body = Json(<<"2.0.0", "1.0.0">>)
    /\ regRet = [version |-> "2.0.0", err |-> "nil"]


\* C28: in a run with local-source setup the directory of a module named in
\* the exclusion list is never handed to the converter: no converter call is
\* ever under way for it, each of its files keeps the content it had before
\* the setup, and no FileRestore entry names one of its files, neither in
\* the converter's list nor in the setup's nor in the reversal's.
C28_ExcludedModulesUntouched ==
    \A m \in exceptionList :
        /\ cpc \in {"convert", "converted"} /\ mpc = "setup" => sIdx # m
        /\ \A f \in Range(Glob(m)) :
               /\ disk[f] = orig[f]
               /\ f \notin Paths(filesToRestore)
               /\ f \notin Paths(convRet.files)
               /\ f \notin Paths(allFilesToRestore)
               /\ f \notin Paths(revertList)

\* The setup is over: an excluded module's convertible file is as it was,
\* while the file of a module that is not excluded has been rewritten and
\* has its restore entry.
C28_Witness ==
    /\ mpc = "loop"
    /\ revertPending
    /\ \E m \in exceptionList : \E f \in Range(Glob(m)) :
           /\ orig[f] = CanonFile
           /\ disk[f] = CanonFile
    /\ \E m \in Included : \E f \in Range(Glob(m)) :
           /\ orig[f] = CanonFile
           /\ disk[f] # orig[f]
           /\ f \in Paths(allFilesToRestore)


\* File f holds what ConvertToLocal writes for its original content: the
\* module blocks of the canonical source rewritten to the local path.
HasLocalSource(f) ==
    /\ orig[f].kind = "hcl"
    /\ disk[f] # orig[f]
    /\ disk[f] = Hcl(updateModuleBlocks(orig[f].body, <<"ns", "name", "provider">>,
                       <<"ns", "name", "provider", "", "modules">>).body)

\* C29: in a run with local-source setup, once the setup is over and the
\* reversal is registered every file the conversion rewrote has a
\* FileRestore entry in the list the reversal will be given, and after a
\* reversal that returned no error no file is left with the local-path
\* source, also when a ConvertToLocal call returned an error after it had
\* rewritten files.
C29_RewrittenFilesAreRestored ==
    /\ revertPending =>
           \A f \in Files : HasLocalSource(f) => f \in Paths(allFilesToRestore)
    /\ (cpc = "cleaned" /\ revertRet = "nil") =>
           \A f \in Files : ~HasLocalSource(f)


\* The file on which the os.WriteFile of ConvertToLocal has just failed.
FailedWrite(f) ==
    /\ cpc = "converted"
    /\ convRet.err = "write"
    /\ f = cDir[cIdx]

\* C30: while ConvertToLocal runs and when it has returned, filesToRestore
\* holds one entry, and only one, for each file the call has rewritten, with
\* the file's whole content from before the rewrite, and no entry for a file
\* it has left as it was (the file on which a write has just failed has no
\* entry either).  While RevertToRegistry runs and when it has returned, the
\* files it has written are those of the first entries of its list, in the
\* order of the list and each once, and each holds the whole content made
\* from its entry.
C30_OneEntryPerModifiedFile ==
    /\ cpc \in {"convert", "converted"} =>
         /\ Cardinality(Paths(filesToRestore)) = Len(filesToRestore)
         /\ \A k \in 1..Len(filesToRestore) :
                LET e == filesToRestore[k] IN
                /\ e.OriginalContent = orig[e.Path]
                /\ disk[e.Path] # orig[e.Path]
                /\ disk[e.Path] =
                     Hcl(updateModuleBlocks(orig[e.Path].body,
                                            ModuleSourceOf(moduleInfo),
                                            SubmoduleRegexOf(moduleInfo)).body)
         /\ \A f \in Files \ Paths(filesToRestore) :
                disk[f] = orig[f] \/ FailedWrite(f)
    /\ cpc \in {"revert", "reverted"} =>
         /\ revWrites = [k \in 1..(rIdx - 1) |-> revertList[k].Path]
         /\ Cardinality(Range(revWrites)) = Len(revWrites)
         /\ \A f \in Range(revWrites) : disk[f] = Restored(f)

\* A conversion that rewrote one file and left a parsable one as it was,
\* followed by a reversal that wrote the rewritten file and returned nil.
C30_Witness ==
    /\ cpc = "reverted"
    /\ revertRet = "nil"
    /\ Len(revertList) = 1
    /\ revWrites = <<revertList[1].Path>>
    /\ \E g \in Files \ Paths(filesToRestore) :
           /\ orig[g].kind = "hcl"
           /\ disk[g] = orig[g]


\* C31: when the run is over and the summary has been emitted, the run is
\* marked failed exactly when the summary lists a failed module; a module
\* whose Apply succeeded and whose teardown or cleanup failed is listed and
\* so fails the run.
C31_RunFailsIffSummaryListsFailure ==
    (mpc = "done" /\ summaries # <<>>) =>
        (RunFailed <=> summaries[Len(summaries)].count > 0)


\* C32: in a run with local-source setup no subtest has started and no Apply
\* has been called before convertModulesToLocal has gone through every
\* module name and the last ConvertToLocal call has returned; and when the
\* setup function returned an error no subtest ever starts, no Apply is
\* called and the aggregator stays empty.
C32_ConversionPrecedesApply ==
    /\ (\E m \in Modules : spc[m] # "idle" \/ applyCalls[m] > 0) =>
           /\ mpc \notin {"setup", "fatal"}
           /\ sIdx = NumModules + 1
           /\ cpc \notin {"convert", "converted"}
    /\ mpc = "fatal" =>
           /\ \A m \in Modules : spc[m] = "idle" /\ applyCalls[m] = 0
           /\ trModules = <<>>
           /\ trFailed = <<>>

\* An Apply is under way on a tree in which a file has been rewritten and
\* recorded by the setup.
C32_Witness ==
    /\ \E m \in Modules : spc[m] = "applying" /\ applyCalls[m] = 1
    /\ \E f \in Files : disk[f] # orig[f] /\ f \in Paths(allFilesToRestore)


\* C33: while RevertToRegistry runs for the local-source cleanup, and ever
\* after, the summary has been emitted, every subtest that was started has
\* completed with its Apply and (unless skipped) its Destroy returned, no
\* subtest is in its lifecycle, and the context of the reversal is not
\* cancelled.
C33_ReversalAfterLifecycles ==
    cpc \in {"revert", "reverted", "cleaned"} =>
        /\ mpc = "done"
        /\ Len(summaries) = 1
        /\ ~ctxDone
        /\ \A m \in Modules :
               /\ spc[m] \in {"idle", "done"}
               /\ ~InLifecycle(m)
               /\ m \in Included =>
                      /\ spc[m] = "done"
                      /\ applyRet[m] # "none"
                      /\ skipDestroy \/ destroyRet[m] # "none"

\* A parallel run of two modules whose reversal has written a file.
C33_Witness ==
    /\ parallel
    /\ Included = Modules
    /\ ~skipDestroy
    /\ cpc = "revert"
    /\ revWrites # <<>>


\* Sequence s is an initial part of sequence t.
IsPrefix(s, t) ==
    /\ Len(s) <= Len(t)
    /\ \A k \in 1..Len(s) : t[k] = s[k]

\* C34: for every module, no step removes or changes an entry of Errors,
\* no step resets ApplyFailed, the only step that sets ApplyFailed is the
\* return of a failed Apply, and in every state ApplyFailed implies that
\* Errors is not empty.
C34_ErrorsGrowFlagSticks ==
    /\ [][\A m \in Modules :
            /\ IsPrefix(Errors[m], Errors'[m])
            /\ ApplyFailed[m] => ApplyFailed'[m]
            /\ (~ApplyFailed[m] /\ ApplyFailed'[m]) =>
                   /\ applyRet[m] = "none"
                   /\ applyRet'[m] = "err"]_vars
    /\ [](\A m \in Modules : ApplyFailed[m] => Errors[m] # <<>>)

\* A module whose Apply failed has been through Destroy with teardown and
\* cleanup failing too: the flag is still set and the apply failure is
\* still the content of Errors.
C34_Witness ==
    \E m \in Modules :
        /\ ApplyFailed[m]
        /\ destroyRet[m] = "err"
        /\ cleanup[m] = "fail"
        /\ Errors[m] = <<"Apply failed">>


\* The subtest named m has called Apply.
PastApplyCall(m) ==
    spc[m] \in {"applying", "applied", "destroying", "add", "adding", "done"}

\* C35: Apply has been called on module m exactly once when the subtest
\* named m is past its call and not at all before, so that at the end of
\* the run every module that is not excluded has been applied once, in
\* parallel runs too; and a step changes Errors or ApplyFailed of one module
\* at most, and only as the return of Apply or Destroy in that module's own
\* subtest.
C35_OwnSubtestOwnModule ==
    /\ [](\A m \in Modules :
            /\ applyCalls[m] = IF PastApplyCall(m) THEN 1 ELSE 0
            /\ (mpc = "done" /\ m \in Included) => applyCalls[m] = 1)
    /\ [][\A m \in Modules :
            (Errors'[m] # Errors[m] \/ ApplyFailed'[m] # ApplyFailed[m]) =>
                /\ spc[m] \in {"applying", "destroying"}
                /\ spc'[m] # spc[m]
                /\ \A k \in Modules \ {m} :
                       /\ Errors'[k] = Errors[k]
                       /\ ApplyFailed'[k] = ApplyFailed[k]
                       /\ spc'[k] = spc[k]]_vars

\* A parallel run is over in which the first module failed to apply and
\* the last one went through without an error.
C35_Witness ==
    /\ parallel
    /\ mpc = "done"
    /\ Included = Modules
    /\ Errors[1] = <<"Apply failed">>
    /\ ApplyFailed[1]
    /\ Errors[NumModules] = <<>>
    /\ ~ApplyFailed[NumModules]


\* C36: a module that is in the aggregator, or about to be put there, has
\* had its Apply return and, unless teardown is skipped, its Destroy return;
\* no step changes Errors or ApplyFailed of a module that is in the
\* aggregator; in every state the failed sequence is the all-modules
\* sequence restricted to the modules with non-empty Errors, in the same
\* order; and the summary lists as failed exactly that sequence.
C36_AddedAfterLifecycleAndFrozen ==
    /\ [](\A m \in Modules :
            (m \in Range(trModules) \/ spc[m] \in {"add", "adding", "done"}) =>
                /\ applyRet[m] # "none"
                /\ skipDestroy \/ destroyRet[m] # "none")
    /\ [][\A m \in Range(trModules) :
            /\ Errors'[m] = Errors[m]
            /\ ApplyFailed'[m] = ApplyFailed[m]]_vars
    /\ [](trFailed = SelectSeq(trModules, LAMBDA m : Errors[m] # <<>>))
    /\ [](Len(summaries) = 1 => summaries[1].failed = trFailed)

\* The summary of a parallel run with teardown in which one module went
\* through and another, added first, failed in its teardown only.
C36_Witness ==
    /\ parallel
    /\ ~skipDestroy
    /\ Len(summaries) = 1
    /\ Len(trModules) = NumModules
    /\ Len(trFailed) = 1
    /\ trFailed[1] = trModules[1]
    /\ Errors[trFailed[1]] = <<"Destroy failed">>


\* What the lifecycle leaves in the record of module m when it runs alone,
\* from a fresh record, with the outcomes the run has had for m.
Outcome(m) ==
    LET a == ModuleApply(<<>>, FALSE, applyRet[m] = "err")
        d == ModuleDestroy(a.Errors, a.ApplyFailed, teardown[m] = "fail",
                           cleanup[m] = "fail")
    IN  [Errors |-> IF skipDestroy THEN a.Errors ELSE d.Errors,
         ApplyFailed |-> a.ApplyFailed]

\* C37: at the end of a run, parallel or not and whatever the interleaving,
\* Errors and ApplyFailed of every module are those its own outcomes of
\* apply, teardown and cleanup give, the aggregator holds every module that
\* is not excluded exactly once and, as failed, exactly once each of them
\* whose outcome has errors; a sequential run holds them in input order.
C37_ParallelEqualsSequential ==
    mpc = "done" =>
        /\ \A m \in Included :
               /\ Errors[m] = Outcome(m).Errors
               /\ ApplyFailed[m] = Outcome(m).ApplyFailed
        /\ \A m \in Modules :
               /\ Occurrences(trModules, m) = IF m \in Included THEN 1 ELSE 0
               /\ Occurrences(trFailed, m) =
                      IF m \in Included /\ Outcome(m).Errors # <<>>
                      THEN 1 ELSE 0
        /\ ~parallel =>
               /\ trModules = SelectSeq(InputModules, LAMBDA m : m \in Included)
               /\ trFailed = SelectSeq(trModules,
                                       LAMBDA m : Outcome(m).Errors # <<>>)

\* A parallel run has ended with the modules in the aggregator in the
\* reverse of the input order, all of them failed.
C37_Witness ==
    /\ parallel
    /\ mpc = "done"
    /\ Len(trModules) = NumModules
    /\ \A k \in 1..NumModules : trModules[k] = NumModules + 1 - k
    /\ trFailed = trModules


\* The body with the quoted value of every attribute named version, in
\* whichever block, replaced by "~> latest" and nothing else changed.
RECURSIVE PinVersions(_, _)
PinVersions(body, latestVersion) ==
    [k \in 1..Len(body) |->
       [body[k] EXCEPT
          !.attrs = [j \in 1..Len(@) |->
                       IF @[j].name = "version" /\ @[j].value.lit
                       THEN Attr(@[j].name, Lit(<<"~>", latestVersion>>))
                       ELSE @[j]],
          !.body = PinVersions(@, latestVersion)]]

\* C38: a file RevertToRegistry has written after a successful lookup holds
\* the entry's original content with the value of every version attribute
\* replaced by "~> <latest>" and nothing else changed: every other
\* attribute, every source among them, is as in the original, and an
\* original without a version attribute is written back as it was.
C38_OnlyVersionLiteralsChange ==
    \A f \in Range(revWrites) :
        lookup[f] \in LatestVersions =>
            /\ orig[f].kind = "hcl"
            /\ disk[f] = Hcl(PinVersions(orig[f].body, lookup[f]))


\* Every file of the directory is parsable and is either as ConvertToLocal
\* wrote it or one in which ConvertToLocal found nothing to rewrite.
AlreadyConverted ==
    \A f \in Files :
        /\ disk[f].kind = "hcl"
        /\ \/ HasLocalSource(f)
           \/ /\ disk[f] = orig[f]
              /\ ~updateModuleBlocks(orig[f].body, ModuleSourceOf(moduleInfo),
                                     SubmoduleRegexOf(moduleInfo)).changed

\* C39: a second ConvertToLocal call, with the same module identity, on a
\* directory the first call has converted writes no file and records no
\* FileRestore entry, and it returns no entry: as long as the second call
\* has found the directory converted and recorded nothing, its next step
\* leaves the files as they are, records nothing and, if it returns,
\* returns an empty list.
C39_SecondConversionIsIdle ==
    [][(/\ convCalls = 1
        /\ cpc = "convert"
        /\ AlreadyConverted
        /\ filesToRestore = <<>>) =>
           /\ disk' = disk
           /\ filesToRestore' = <<>>
           /\ cpc' = "converted" => convRet'.files = <<>>]_vars

\* The second call has returned nil after going through a directory in
\* which the first call had rewritten a file.
C39_Witness ==
    /\ convCalls = 1
    /\ cpc = "converted"
    /\ convRet = [files |-> <<>>, err |-> "nil"]
    /\ AlreadyConverted
    /\ \E f \in Files : HasLocalSource(f)


\* C40: Run, the channel-based runner, terminates: once it starts its
\* subtests, every module's subtest eventually executes and sends its
\* result, and Run returns nil with exactly one TestResult per module; it
\* never stays blocked receiving from the result channel while the parallel
\* subtests wait for the calling test function to return.
C40_RunTerminates ==
    (rpc = "loop") ~> (/\ rpc = "returned"
                       /\ runErr = "nil"
                       /\ Len(results) = rmods
                       /\ \A m \in 1..rmods : wpc[m] = "done")

====
